---------------------------- MODULE Spec2Model ----------------------------
(***************************************************************************)
(* Push-to-fix orchestration pipeline of repo_pilot.                       *)
(*                                                                         *)
(*   SpecWait  one call of GitHubService.wait_for_ci: the polling loop,    *)
(*             its clock, its deadline and the value it returns.           *)
(*   Spec      pipeline units (process_push) running concurrently against  *)
(*             one host (pull requests, branches, comments) and one        *)
(*             fix-memory store.                                           *)
(*   SpecParse the extraction of the file changes from a report            *)
(*             (parse_file_changes) and the advisory fallback.             *)
(*   SpecWalk  the walk over the repository tree that builds the source    *)
(*             bundle.                                                     *)
(*   SpecLogs  get_workflow_run_logs for a run with one failed job.        *)
(*   SpecHook  handle_webhook: the requests it answers and the units it    *)
(*             schedules.                                                  *)
(*   SpecSolo  one pipeline unit alone on the host, run to its end.        *)
(*                                                                         *)
(* The specifications share the operators that model the code.             *)
(***************************************************************************)
EXTENDS Integers, Sequences, FiniteSets, TLC

VARIABLES
    \* ---- wait_for_ci (services/github_service.py) ----
    timeout,        \* timeout after `timeout or CI_POLL_TIMEOUT`
    interval,       \* interval after `interval or CI_POLL_INTERVAL`
    now,            \* the clock read by time.time()
    deadline,       \* time.time() + timeout, taken at the start of the call
    wpc,            \* position in wait_for_ci: "call", "poll", "done"
    ci_result,      \* the returned dict, NoResult while the call is running
    polls,          \* number of polls made so far
    lastPoll,       \* clock value read in the most recent poll, -1 before the first
    lastSleep,      \* argument of the most recent time.sleep, -1 before the first
    lastRuns,       \* what the run listing gave the poll that ended the call
    seen            \* kinds of run list the polls of this call have observed

wvars == <<timeout, interval, now, deadline, wpc, ci_result, polls,
           lastPoll, lastSleep, lastRuns, seen>>

VARIABLES
    \* ---- the host and the fix-memory store ----
    pulls,          \* the host's pull requests, newest first (the listing order)
    refs,           \* the host's branch names
    comments,       \* accepted issue comments: [pr, unit]
    files,          \* accepted content commits, in order: [branch, path, unit]
    store,          \* documents indexed in the fix-memory store, in order
    \* ---- one process_push unit per push (routes/webhook.py) ----
    pc,             \* position of each unit in process_push
    push,           \* the unit's arguments: [head_sha, branch]
    status,         \* ci_result["status"]
    failed_runs,    \* ci_result["failed_runs"]
    default_branch, \* what get_default_branch returned to the unit
    listed,         \* the answer to the unit's list-pulls request: [code, prs]
    open_fix_prs,   \* the list get_open_fix_prs returned to the unit
    crew_output,    \* str(result) of the reasoning step
    file_changes,   \* the edit list
    nextChange,     \* index of the next edit of the commit loop / PR of the closure loop
    committed,      \* paths whose commit succeeded
    pr,             \* number of the PR create_pr returned, 0 if none
    calls           \* the external calls each unit has issued, in order: [op, arg]

hvars == <<pulls, refs, comments, files, store>>

uvars == <<pc, push, status, failed_runs, default_branch, listed, open_fix_prs, crew_output,
           file_changes, nextChange, committed, pr, calls>>

pvars == <<pulls, refs, comments, files, store, pc, push, status, failed_runs,
           default_branch, listed, open_fix_prs, crew_output, file_changes, nextChange, committed, pr,
           calls>>

VARIABLES
    \* ---- the source walk of process_push (routes/webhook.py, lines 145-163) ----
    repo_files,     \* what get_repo_tree returned: the files' reported sizes
    walk_i,         \* index of the file the loop is at, 0 outside the walk
    total_len,      \* the running character total
    source_parts,   \* the parts appended so far: [file, len]
    fetches,        \* indices of the files whose content was requested, in order
    \* ---- get_workflow_run_logs (services/github_service.py) ----
    jobs_answer,    \* the host's answers: [code, conclusion, log_code, text]
    run_logs        \* the returned string

avars == <<repo_files, walk_i, total_len, source_parts, fetches, jobs_answer, run_logs>>

VARIABLES
    \* ---- handle_webhook (routes/webhook.py) ----
    webhook_secret,   \* WEBHOOK_SECRET, read from the environment at import
    request,          \* the request being answered: headers and body
    response,         \* the answer to it
    background_tasks, \* the tasks the handler added for this request
    tasks,            \* every process_push task scheduled so far, in order
    handled           \* number of requests answered

kvars == <<webhook_secret, request, response, background_tasks, tasks, handled>>

vars == <<timeout, interval, now, deadline, wpc, ci_result, polls,
          lastPoll, lastSleep, lastRuns, seen,
          pulls, refs, comments, files, store, pc, push, status, failed_runs,
          default_branch, listed, open_fix_prs, crew_output, file_changes, nextChange, committed, pr,
          calls,
          repo_files, walk_i, total_len, source_parts, fetches, jobs_answer, run_logs,
          webhook_secret, request, response, background_tasks, tasks, handled>>

-----------------------------------------------------------------------------
(* Bounds of the model *)

\* longest run list the host returns in one poll
MaxRuns == 2
\* most code files in the repository tree
MaxFiles == 3
\* most pieces (whole blocks or plain text) of a report
MaxPieces == 3
\* longest 'files' list of a JSON report
MaxElems == 2
\* job logs are up to this much shorter or longer than the truncation length
MaxSlack == 25
\* most requests the webhook endpoint answers
MaxRequests == 2
\* largest excess, in seconds, of the time between two clock reads over the
\* requested sleep (sleep overshoot plus the latency of the next request)
MaxDelay == 1

-----------------------------------------------------------------------------
(* Generic helpers *)

Min(a, b) == IF a <= b THEN a ELSE b


-----------------------------------------------------------------------------
(* wait_for_ci *)

CI_POLL_TIMEOUT == 600
CI_POLL_INTERVAL == 20
\* the 10 of time.sleep(min(10, interval))
GraceSeconds == 10

\* arguments of the call; 0 stands for None (and for 0): both are falsy
TimeoutArgs == {0, 45}
IntervalArgs == {0, 200}

\* (status, conclusion) pairs of a workflow run as the host reports them
RunKinds ==
    { [status |-> "in_progress", conclusion |-> "null"],
      [status |-> "completed",   conclusion |-> "success"],
      [status |-> "completed",   conclusion |-> "skipped"],
      [status |-> "completed",   conclusion |-> "failure"],
      [status |-> "completed",   conclusion |-> "timed_out"],
      [status |-> "completed",   conclusion |-> "cancelled"] }

\* a run list of length n: the run at position i has id i
MkRuns(kinds) ==
    [i \in 1..Len(kinds) |->
        [id |-> i, status |-> kinds[i].status, conclusion |-> kinds[i].conclusion]]

RunLists == UNION {{MkRuns(k) : k \in [1..n -> RunKinds]} : n \in 0..MaxRuns}

\* HTTP answers to the run listing: a status code and the body's workflow_runs
RunResponses ==
    {[code |-> 200, workflow_runs |-> r] : r \in RunLists}
        \cup {[code |-> 500, workflow_runs |-> <<>>]}

NoResult == [status |-> "none", failed_runs |-> <<>>, all_runs |-> <<>>]

\* `x or default`
OrDefault(x, default) == IF x = 0 THEN default ELSE x

get_workflow_runs_for_commit(resp) ==
    IF resp.code # 200 THEN <<>> ELSE resp.workflow_runs

all_completed(rs) == \A i \in 1..Len(rs) : rs[i].status = "completed"

FailedConclusions == {"failure", "timed_out", "cancelled"}

\* a slip: only 'failure' counts as failed
IsFailedRun_onlyFailure(r) == r.conclusion = "failure"

IsFailedRun(r) == r.conclusion \in FailedConclusions

\* the list comprehension `failed`: {id, conclusion} of each failed run, in order
failed(rs) ==
    LET sel == SelectSeq(rs, IsFailedRun)
    IN  [k \in 1..Len(sel) |-> [id |-> sel[k].id, conclusion |-> sel[k].conclusion]]

\* a slip: an empty listing ends the call without looking at the deadline
PollOutcome_noDeadline(rs, t, dl) ==
    IF rs = <<>>
    THEN [status |-> "no_ci", failed_runs |-> <<>>, all_runs |-> <<>>]
    ELSE IF all_completed(rs)
         THEN [status |-> IF failed(rs) # <<>> THEN "failure" ELSE "success",
               failed_runs |-> failed(rs), all_runs |-> rs]
         ELSE IF t >= dl
              THEN [status |-> "timeout", failed_runs |-> <<>>, all_runs |-> rs]
              ELSE [status |-> "none", failed_runs |-> <<>>, all_runs |-> <<>>]

\* a slip: the deadline is looked at before the completion of the runs
PollOutcome_deadlineFirst(rs, t, dl) ==
    IF rs = <<>>
    THEN IF t >= dl
         THEN [status |-> "no_ci", failed_runs |-> <<>>, all_runs |-> <<>>]
         ELSE [status |-> "none", failed_runs |-> <<>>, all_runs |-> <<>>]
    ELSE IF t >= dl
         THEN [status |-> "timeout", failed_runs |-> <<>>, all_runs |-> rs]
         ELSE IF all_completed(rs)
              THEN [status |-> IF failed(rs) # <<>> THEN "failure" ELSE "success",
                    failed_runs |-> failed(rs), all_runs |-> rs]
              ELSE [status |-> "none", failed_runs |-> <<>>, all_runs |-> <<>>]

\* a slip: a timeout reports the failed runs seen so far
PollOutcome_timeoutFailed(rs, t, dl) ==
    IF rs = <<>>
    THEN IF t >= dl
         THEN [status |-> "no_ci", failed_runs |-> <<>>, all_runs |-> <<>>]
         ELSE [status |-> "none", failed_runs |-> <<>>, all_runs |-> <<>>]
    ELSE IF all_completed(rs)
         THEN [status |-> IF failed(rs) # <<>> THEN "failure" ELSE "success",
               failed_runs |-> failed(rs), all_runs |-> rs]
         ELSE IF t >= dl
              THEN [status |-> "timeout", failed_runs |-> failed(rs), all_runs |-> rs]
              ELSE [status |-> "none", failed_runs |-> <<>>, all_runs |-> <<>>]

\* one iteration of the `while True` loop, from the fetched runs and the clock
\* value t read in it: the dict it returns, or NoResult when it sleeps and
\* polls again
PollOutcome(rs, t, dl) ==
    IF rs = <<>>
    THEN IF t >= dl
         THEN [status |-> "no_ci", failed_runs |-> <<>>, all_runs |-> <<>>]
         ELSE NoResult
    ELSE IF all_completed(rs)
         THEN [status |-> IF failed(rs) # <<>> THEN "failure" ELSE "success",
               failed_runs |-> failed(rs), all_runs |-> rs]
         ELSE IF t >= dl
              THEN [status |-> "timeout", failed_runs |-> <<>>, all_runs |-> rs]
              ELSE NoResult

\* a slip: the sleep doubles (a backoff)
PollSleep_backoff(iv) == 2 * iv

\* the argument of the time.sleep between two polls
PollSleep(iv) == iv

\* what a poll observed: "empty", "pending" (some run not completed), "complete"
PollKind(rs) ==
    IF rs = <<>> THEN "empty"
    ELSE IF \E i \in 1..Len(rs) : rs[i].status # "completed" THEN "pending"
    ELSE "complete"

\* the pipeline's variables while only wait_for_ci is under study
PipelineIdle ==
    /\ pulls = <<>> /\ refs = {} /\ comments = {} /\ files = <<>> /\ store = <<>>
    /\ pc = <<>> /\ push = <<>> /\ status = <<>> /\ failed_runs = <<>>
    /\ default_branch = <<>> /\ listed = <<>>
    /\ open_fix_prs = <<>> /\ crew_output = <<>> /\ file_changes = <<>>
    /\ nextChange = <<>> /\ committed = <<>> /\ pr = <<>> /\ calls = <<>>

\* get_workflow_run_logs has not returned
NotReturned == [returned |-> FALSE, text |-> <<>>]

\* the assembler's variables while it is not under study
AssemblerIdle ==
    /\ repo_files = <<>> /\ walk_i = 0 /\ total_len = 0 /\ source_parts = <<>>
    /\ fetches = <<>> /\ jobs_answer = <<>> /\ run_logs = NotReturned

\* a body that is not JSON
NoBody == [kind |-> "not_json", repo |-> <<>>, after |-> <<>>, ref |-> <<>>]

\* no X-Hub-Signature-256 header
NoHeader == [present |-> FALSE, key |-> "", body |-> NoBody]

NoRequest == [signature |-> NoHeader, event |-> "unknown", body |-> NoBody]

NoResponse == [code |-> 0, status |-> "none"]

\* the webhook endpoint's variables while it is not under study
HookIdle ==
    /\ webhook_secret = "" /\ request = NoRequest /\ response = NoResponse
    /\ background_tasks = <<>> /\ tasks = <<>> /\ handled = 0

WaitInit ==
    /\ PipelineIdle
    /\ AssemblerIdle
    /\ HookIdle
    /\ timeout \in {OrDefault(t, CI_POLL_TIMEOUT) : t \in TimeoutArgs}
    /\ interval \in {OrDefault(i, CI_POLL_INTERVAL) : i \in IntervalArgs}
    /\ now = 0
    /\ deadline = -1
    /\ wpc = "call"
    /\ ci_result = NoResult
    /\ polls = 0
    /\ lastPoll = -1
    /\ lastSleep = -1
    /\ lastRuns = <<>>
    /\ seen = {}

\* lines 104-111: the deadline is fixed, then the grace sleep; the clock is
\* next read in the first poll
WaitStart ==
    /\ wpc = "call"
    /\ deadline' = now + timeout
    /\ lastSleep' = Min(GraceSeconds, interval)
    /\ \E d \in 0..MaxDelay : now' = now + Min(GraceSeconds, interval) + d
    /\ wpc' = "poll"
    /\ UNCHANGED <<timeout, interval, ci_result, polls, lastPoll, lastRuns, seen>>
    /\ UNCHANGED <<pvars, avars, kvars>>

\* lines 113-146: a poll whose iteration returns
WaitReturn ==
    /\ wpc = "poll"
    /\ \E resp \in RunResponses :
         LET rs == get_workflow_runs_for_commit(resp)
             out == PollOutcome(rs, now, deadline)
         IN  /\ out # NoResult
             /\ ci_result' = out
             /\ lastRuns' = rs
             /\ seen' = seen \cup {PollKind(rs)}
    /\ polls' = polls + 1
    /\ lastPoll' = now
    /\ wpc' = "done"
    /\ UNCHANGED <<timeout, interval, now, deadline, lastSleep>>
    /\ UNCHANGED <<pvars, avars, kvars>>

\* lines 113-122 and 144-150: a poll whose iteration sleeps and goes round
\* again; the local `runs` is dead once the iteration ends
WaitRetry ==
    /\ wpc = "poll"
    /\ \E resp \in RunResponses :
         LET rs == get_workflow_runs_for_commit(resp)
         IN  /\ PollOutcome(rs, now, deadline) = NoResult
             /\ seen' = seen \cup {PollKind(rs)}
    /\ polls' = polls + 1
    /\ lastPoll' = now
    /\ lastSleep' = PollSleep(interval)
    /\ \E d \in 0..MaxDelay : now' = now + PollSleep(interval) + d
    /\ UNCHANGED <<timeout, interval, deadline, wpc, ci_result, lastRuns>>
    /\ UNCHANGED <<pvars, avars, kvars>>

WaitNext == WaitStart \/ WaitReturn \/ WaitRetry

SpecWait == WaitInit /\ [][WaitNext]_vars

\* the loop is sequential blocking code: a step that can be taken is taken
SpecWaitFair == SpecWait /\ WF_vars(WaitNext)

-----------------------------------------------------------------------------
(* Properties of wait_for_ci *)

\* C3: a poll that observes a non-empty run list whose runs are all
\* 'completed' ends the call at that poll; the status is "failure" exactly
\* when some run's conclusion is failure, timed_out or cancelled, failed_runs
\* is then the sub-list of those runs in the host's order, and otherwise the
\* status is "success" and failed_runs is empty.
C3_Classification ==
    /\ "complete" \in seen => wpc = "done" /\ PollKind(lastRuns) = "complete"
    /\ (/\ wpc = "done"
        /\ lastRuns # <<>>
        /\ \A i \in 1..Len(lastRuns) : lastRuns[i].status = "completed")
       => LET bad == {i \in 1..Len(lastRuns) :
                        lastRuns[i].conclusion \in {"failure", "timed_out", "cancelled"}}
              F == ci_result.failed_runs
          IN  /\ ci_result.status = IF bad # {} THEN "failure" ELSE "success"
              /\ Len(F) = Cardinality(bad)
              /\ \A k \in 1..Len(F) :
                    /\ F[k].id \in bad
                    /\ F[k].conclusion = lastRuns[F[k].id].conclusion
              /\ \A k, l \in 1..Len(F) : k < l => F[k].id < F[l].id

\* a later poll classifies a success followed by a cancelled run
C3_Witness ==
    /\ wpc = "done" /\ polls >= 2 /\ Len(lastRuns) = 2
    /\ lastRuns[1].conclusion = "success" /\ lastRuns[2].conclusion = "cancelled"
    /\ ci_result.status = "failure" /\ Len(ci_result.failed_runs) = 1

\* C4: a call all of whose polls got an empty run list returns no_ci, at the
\* first poll made at or after the deadline; an empty poll before the
\* deadline returns nothing: the call sleeps `interval` and polls again.
C4_NoCi ==
    /\ (wpc = "done" /\ lastRuns = <<>>)
       => ci_result.status = "no_ci" /\ lastPoll >= deadline
    /\ (wpc = "poll" /\ polls >= 1 /\ seen = {"empty"})
       => lastPoll < deadline /\ lastSleep = interval /\ ci_result = NoResult

\* three empty polls, the third one past the deadline
C4_Witness ==
    /\ wpc = "done" /\ seen = {"empty"} /\ polls >= 3
    /\ ci_result.status = "no_ci" /\ lastPoll >= deadline

\* C5: a call all of whose polls got a non-empty list with a run that is not
\* 'completed' returns timeout at the first poll made at or after the
\* deadline, with the runs of that poll as all_runs and no failed_runs; a
\* timeout is never returned before the deadline.
C5_Timeout ==
    /\ (wpc = "done" /\ PollKind(lastRuns) = "pending")
       => /\ ci_result.status = "timeout"
          /\ ci_result.all_runs = lastRuns
          /\ ci_result.failed_runs = <<>>
    /\ ci_result.status = "timeout"
       => lastPoll >= deadline /\ PollKind(lastRuns) = "pending"
    /\ (wpc = "poll" /\ polls >= 1 /\ seen = {"pending"})
       => lastPoll < deadline /\ ci_result = NoResult

\* the deadline passes with a failed run next to one still in progress
C5_Witness ==
    /\ wpc = "done" /\ seen = {"pending"} /\ polls >= 3
    /\ ci_result.status = "timeout" /\ Len(ci_result.all_runs) = 2
    /\ \E i \in 1..2 : lastRuns[i].conclusion = "failure"

-----------------------------------------------------------------------------
(* Text: strings the code inspects are sequences of characters *)

\* s.startswith(p)
StartsWith(s, p) == Len(s) >= Len(p) /\ SubSeq(s, 1, Len(p)) = p

\* s[:n]
Take(s, n) == SubSeq(s, 1, Min(n, Len(s)))

Rep(c, n) == [i \in 1..n |-> c]

FixPrefix == <<"f", "i", "x", "/", "c", "i", "-">>

\* head_sha[:7] and f"fix/ci-{head_sha[:7]}"
ShortShaLen == 7
short_sha(sha) == Take(sha, ShortShaLen)
fix_branch(sha) == FixPrefix \o short_sha(sha)

ShaLen == 40
ShaA == <<"a", "b", "c", "1", "2", "3", "4">> \o Rep("a", ShaLen - 7)
ShaB == <<"d", "e", "f", "5", "6", "7", "8">> \o Rep("b", ShaLen - 7)

Main == <<"m", "a", "i", "n">>
Dev == <<"d", "e", "v">>
Feature == <<"f", "i", "x", "/", "c", "i">>
OldFix1 == FixPrefix \o <<"o", "l", "d", "1">>
OldFix3 == FixPrefix \o <<"o", "l", "d", "3">>
HotFix == <<"h", "o", "t">> \o FixPrefix \o <<"1">>

-----------------------------------------------------------------------------
(* The host: pull requests *)

\* a pull request; `body` is the list of paths under "Files Changed"
PR(n, head, base) ==
    [number |-> n, head |-> head, base |-> base, state |-> "open", body |-> <<>>]

\* the host's default branch
HostDefaultBranch == Main

\* GET /pulls?state=open&base=b, in listing order
ListOpenPulls(ps, base) ==
    LET Open(q) == q.state = "open" /\ q.base = base IN SelectSeq(ps, Open)

\* a slip: the lookup by head finds nothing
ListOpenPullsByHead_none(ps, head) == <<>>

\* GET /pulls?state=open&head=owner:h
ListOpenPullsByHead(ps, head) ==
    LET Open(q) == q.state = "open" /\ q.head = head IN SelectSeq(ps, Open)

\* get_default_branch: the host's answer, "main" on a non-200 status
get_default_branch(code) == IF code # 200 THEN Main ELSE HostDefaultBranch

\* a slip: every listed PR is taken for a fix PR
IsFixPr_any(q) == TRUE

\* pr.get("head", {}).get("ref", "").startswith("fix/ci-")
IsFixPr(q) == StartsWith(q.head, FixPrefix)

\* a slip: the status of the listing is not looked at
get_open_fix_prs_anyStatus(code, ps, base) == SelectSeq(ListOpenPulls(ps, base), IsFixPr)

\* get_open_fix_prs: [] on a non-200 status, else the listed PRs whose head
\* ref starts with 'fix/ci-'
get_open_fix_prs(code, ps, base) ==
    IF code # 200 THEN <<>> ELSE SelectSeq(ListOpenPulls(ps, base), IsFixPr)

NextPrNumber(ps) ==
    IF ps = <<>> THEN 1
    ELSE 1 + CHOOSE n \in {ps[i].number : i \in 1..Len(ps)} :
                 \A i \in 1..Len(ps) : ps[i].number <= n

\* PATCH /pulls/n {"state": "closed"}
ClosePull(ps, n) ==
    [i \in 1..Len(ps) |-> IF ps[i].number = n THEN [ps[i] EXCEPT !.state = "closed"]
                          ELSE ps[i]]

\* the pull requests the host may hold when the first push arrives
InitPulls ==
    { <<>>,
      <<PR(2, HotFix, Main), PR(1, OldFix1, Dev)>>,
      <<PR(3, HotFix, Main), PR(2, OldFix3, Main), PR(1, OldFix1, Main)>> }

-----------------------------------------------------------------------------
(* parse_file_changes *)

\* A report is [tokens, json]. `tokens` spells the text piece by piece, each
\* piece [k, s] with k one of
\*   "file"  a header: '===FILE:' followed by s and '===\n',
\*   "end"   the marker '===END FILE===',
\*   "text"  the characters s,
\* and the text is the concatenation of the pieces' characters; `json` is what
\* json.loads makes of the text.

WhiteSpace == {" ", "\n", "\t"}

RECURSIVE LStrip(_)
LStrip(s) == IF s # <<>> /\ Head(s) \in WhiteSpace THEN LStrip(Tail(s)) ELSE s

RECURSIVE RStrip(_)
RStrip(s) ==
    IF s # <<>> /\ s[Len(s)] \in WhiteSpace THEN RStrip(SubSeq(s, 1, Len(s) - 1)) ELSE s

\* str.strip()
Strip(s) == RStrip(LStrip(s))

\* the literals of the pattern
FileMark == <<"=", "=", "=", "F", "I", "L", "E", ":">>
HeaderEnd == <<"=", "=", "=", "\n">>
EndMark == <<"=", "=", "=", "E", "N", "D", " ", "F", "I", "L", "E", "=", "=", "=">>

\* the characters of a piece
TokenText(t) ==
    IF t.k = "file" THEN FileMark \o t.s \o HeaderEnd
    ELSE IF t.k = "end" THEN EndMark
    ELSE t.s

RECURSIVE Concat(_)
Concat(ts) == IF ts = <<>> THEN <<>> ELSE TokenText(Head(ts)) \o Concat(Tail(ts))

\* the literal lit stands at position i of s
At(s, i, lit) ==
    i >= 1 /\ i + Len(lit) - 1 <= Len(s) /\ SubSeq(s, i, i + Len(lit) - 1) = lit

\* the first position at or after i where lit stands, 0 if there is none
RECURSIVE Find(_, _, _)
Find(s, i, lit) ==
    IF i + Len(lit) - 1 > Len(s) THEN 0
    ELSE IF At(s, i, lit) THEN i
    ELSE Find(s, i + 1, lit)

\* the number of whitespace characters from position i on, up to position b
RECURSIVE WsAhead(_, _, _)
WsAhead(s, i, b) ==
    IF i > b \/ s[i] \notin WhiteSpace THEN 0 ELSE 1 + WsAhead(s, i + 1, b)

\* the number of whitespace characters before position i, back to position a
RECURSIVE WsBehind(_, _, _)
WsBehind(s, i, a) ==
    IF i - 1 < a \/ s[i - 1] \notin WhiteSpace THEN 0 ELSE 1 + WsBehind(s, i - 1, a)

\* The ways the pattern  ===FILE:\s*(.+?)\s*===\n(.*?)===END FILE===  (DOTALL)
\* matches with '===FILE:' at i: the first \s* takes w1 whitespace characters,
\* group 1 takes p >= 1 characters of any kind, the second \s* takes w2
\* whitespace characters, '===\n' stands at h, and an end marker follows
MatchesAt(s, i) ==
    LET j == i + Len(FileMark)
        hs == {h \in (j + 1)..Len(s) :
                  At(s, h, HeaderEnd) /\ Find(s, h + Len(HeaderEnd), EndMark) # 0}
    IN  UNION { UNION { { [w1 |-> w1, p |-> h - j - w1 - w2, w2 |-> w2, h |-> h] :
                            w2 \in 0..Min(WsBehind(s, h, j + w1 + 1), h - j - w1 - 1) } :
                        w1 \in 0..Min(WsAhead(s, j, Len(s)), h - j - 1) } :
                h \in hs }

\* the order in which the matcher tries them: the first \s* is greedy, group 1
\* is lazy, the second \s* is greedy
TriedBefore(m, n) ==
    \/ m.w1 > n.w1
    \/ m.w1 = n.w1 /\ m.p < n.p
    \/ m.w1 = n.w1 /\ m.p = n.p /\ m.w2 >= n.w2

\* the match the matcher finds first among M
FirstTried(M) == CHOOSE x \in M : \A y \in M : TriedBefore(x, y)

\* the groups of the match m of the pattern that starts at i, and the position
\* after it (group 2 is lazy: it ends at the first end marker)
MatchAt(s, i, m) ==
    LET j == i + Len(FileMark)
        c == m.h + Len(HeaderEnd)
        e == Find(s, c, EndMark)
    IN  [path |-> SubSeq(s, j + m.w1, j + m.w1 + m.p - 1),
         content |-> SubSeq(s, c, e - 1),
         next |-> e + Len(EndMark)]

\* re.finditer over the text from position i: the leftmost match, its groups,
\* then the scan resumes after the match
FindBlocks(s, i) ==
    LET scan[t \in {s}] ==
            LET from[k \in 1..(Len(t) + 1)] ==
                    IF k > Len(t) THEN <<>>
                    ELSE LET found == { MatchAt(t, k, m) :
                                          m \in { FirstTried(M) :
                                                    M \in {MatchesAt(t, k)} \ {{}} } }
                         IN  IF ~At(t, k, FileMark) \/ found = {} THEN from[k + 1]
                             ELSE LET b == CHOOSE x \in found : TRUE
                                  IN  <<[path |-> b.path, content |-> b.content]>>
                                          \o from[b.next]
            IN  from[i]
    IN  scan[s]

KeepChange(c) == c.path # <<>> /\ c.content # <<>>

primary_changes(report) ==
    LET blocks == FindBlocks(Concat(report.tokens), 1)
        stripped == [i \in 1..Len(blocks) |->
                        [path |-> Strip(blocks[i].path),
                         content |-> Strip(blocks[i].content)]]
    IN  SelectSeq(stripped, KeepChange)

\* a slip: the fallback drops elements with an empty path or content
RECURSIVE json_changes_filtered(_)
json_changes_filtered(elems) ==
    IF elems = <<>> THEN <<>>
    ELSE IF ~(Head(elems).has_path /\ Head(elems).has_content) THEN <<>>
    ELSE (IF Head(elems).path # <<>> /\ Head(elems).content # <<>>
          THEN <<[path |-> Head(elems).path, content |-> Head(elems).content]>>
          ELSE <<>>) \o json_changes_filtered(Tail(elems))

\* the JSON fallback: elements are appended until one raises (KeyError or
\* TypeError), which ends the loop and keeps what was appended
RECURSIVE json_changes(_)
json_changes(elems) ==
    IF elems = <<>> THEN <<>>
    ELSE IF ~(Head(elems).has_path /\ Head(elems).has_content) THEN <<>>
    ELSE <<[path |-> Head(elems).path, content |-> Head(elems).content]>>
             \o json_changes(Tail(elems))

\* json.loads of the text: kind is "not_json" (JSONDecodeError), "not_object",
\* "no_files" (an object without 'files'), "files_not_list" (iterating it, or
\* subscripting what it yields, raises TypeError) or "files_list"
parse_file_changes(report) ==
    IF primary_changes(report) # <<>> THEN primary_changes(report)
    ELSE IF report.json.kind = "files_list" THEN json_changes(report.json.files)
    ELSE <<>>

NotJson == [kind |-> "not_json", files |-> <<>>]

Txt(c) == [k |-> "text", s |-> <<c>>]
FileTok(p) == [k |-> "file", s |-> p]
EndTok == [k |-> "end", s |-> <<>>]

\* the reports the reasoning step returns in the pipeline
PipelineReports ==
    { [tokens |-> <<Txt("x")>>, json |-> NotJson],
      [tokens |-> <<Txt("x"), FileTok(<<" ", "a">>), Txt("1"), Txt("\n"), EndTok,
                    FileTok(<<"b">>), Txt("2"), EndTok>>,
       json |-> NotJson] }

NoReport == [tokens |-> <<>>, json |-> NotJson]

\* lines 205-214: the advisory document when no edit was extracted
first_run_id(fr, sha) == IF fr # <<>> THEN <<ToString(fr[1].id)>> ELSE short_sha(sha)

advisory(fr, sha, report) ==
    <<[path |-> <<"fixes/ci-fix-">> \o first_run_id(fr, sha) \o <<".md">>,
       content |-> <<"# CI Fix Suggestion (run ">> \o first_run_id(fr, sha)
                       \o <<")\n\n">> \o Concat(report.tokens)]>>

\* a slip: the advisory document is added to the extracted edits
with_advisory_always(fc, fr, sha, report) == fc \o advisory(fr, sha, report)

\* lines 207-214: `if not file_changes:` the advisory document is the edit list
with_advisory(fc, fr, sha, report) ==
    IF fc = <<>> THEN advisory(fr, sha, report) ELSE fc

-----------------------------------------------------------------------------
(* process_push *)

Units == {1, 2}

\* the pushes the units handle: the second is a redelivery of the first or a
\* push of another commit to another branch
PushesOf(u) ==
    IF u = 1 THEN {[head_sha |-> ShaA, branch |-> Main]}
    ELSE {[head_sha |-> ShaA, branch |-> Main], [head_sha |-> ShaB, branch |-> Feature]}

\* what the last poll of wait_for_ci may observe in the pipeline: the run list
\* and whether the deadline had passed
FinalPolls ==
    { [runs |-> MkRuns(<<>>), late |-> TRUE],
      [runs |-> MkRuns(<<[status |-> "in_progress", conclusion |-> "null"]>>), late |-> TRUE],
      [runs |-> MkRuns(<<[status |-> "completed", conclusion |-> "success"]>>), late |-> FALSE],
      [runs |-> MkRuns(<<[status |-> "completed", conclusion |-> "success"],
                         [status |-> "completed", conclusion |-> "failure"]>>), late |-> FALSE] }

\* outcomes of a request whose status the caller does not look at: accepted,
\* answered with an error status, or an exception raised by the transport
Outcomes == {"ok", "fail", "raise"}

\* outcomes of create_branch, commit_file and the POST of create_pr, which
\* raise on every answer they do not accept
Returns == {"ok", "raise"}

Code(o) == IF o = "ok" THEN 200 ELSE 500

Call(op, arg, res) == [op |-> op, arg |-> arg, res |-> res]

NotListed == [code |-> 0, prs |-> <<>>]

Logged(u, cs) == calls' = [calls EXCEPT ![u] = @ \o cs]

\* the variables of wait_for_ci while no call of it is under study
WaitIdle ==
    /\ wpc = "idle" /\ timeout = CI_POLL_TIMEOUT /\ interval = CI_POLL_INTERVAL
    /\ now = 0 /\ deadline = -1 /\ ci_result = NoResult /\ polls = 0
    /\ lastPoll = -1 /\ lastSleep = -1 /\ lastRuns = <<>> /\ seen = {}

Init ==
    /\ WaitIdle
    /\ AssemblerIdle
    /\ HookIdle
    /\ pulls \in InitPulls
    /\ refs = {Main, Dev} \cup {pulls[i].head : i \in 1..Len(pulls)}
    /\ comments = {}
    /\ files = <<>>
    /\ store = <<>>
    /\ pc = [u \in Units |-> "start"]
    /\ push \in {f \in [Units -> UNION {PushesOf(u) : u \in Units}] :
                    \A u \in Units : f[u] \in PushesOf(u)}
    /\ status = [u \in Units |-> "none"]
    /\ failed_runs = [u \in Units |-> <<>>]
    /\ default_branch = [u \in Units |-> <<>>]
    /\ listed = [u \in Units |-> NotListed]
    /\ open_fix_prs = [u \in Units |-> <<>>]
    /\ crew_output = [u \in Units |-> NoReport]
    /\ file_changes = [u \in Units |-> <<>>]
    /\ nextChange = [u \in Units |-> 0]
    /\ committed = [u \in Units |-> <<>>]
    /\ pr = [u \in Units |-> 0]
    /\ calls = [u \in Units |-> <<>>]

\* line 89: GitHubService.for_repo(repo); its exception is not caught
UnitStart(u) ==
    /\ pc[u] = "start"
    /\ \E o \in {"ok", "raise"} :
         /\ pc' = [pc EXCEPT ![u] = IF o = "ok" THEN "wait" ELSE "raised"]
         /\ Logged(u, <<Call("for_repo", 0, o)>>)
    /\ UNCHANGED <<hvars, push, status, failed_runs, default_branch, listed, open_fix_prs, crew_output,
                   file_changes, nextChange, committed, pr>>
    /\ UNCHANGED <<wvars, avars, kvars>>

\* a slip: a timeout is handled like a failure
AfterWait_timeoutAsFailure(st) ==
    IF st = "success" THEN "stale"
    ELSE IF st = "no_ci" THEN "done"
    ELSE "guard"

\* a slip: a success falls through to the failure handling
AfterWait_successAsFailure(st) ==
    IF st \in {"no_ci", "timeout"} THEN "done" ELSE "guard"

\* where process_push goes with the status wait_for_ci returned (lines 95-109)
AfterWait(st) ==
    IF st = "success" THEN "stale"
    ELSE IF st \in {"no_ci", "timeout"} THEN "done"
    ELSE "guard"

\* lines 92-111: wait_for_ci returns what its last poll yields
UnitWait(u) ==
    /\ pc[u] = "wait"
    /\ \E p \in FinalPolls :
         LET out == PollOutcome(p.runs, IF p.late THEN 1 ELSE 0, 1)
         IN  /\ out # NoResult
             /\ status' = [status EXCEPT ![u] = out.status]
             /\ failed_runs' = [failed_runs EXCEPT ![u] = out.failed_runs]
             /\ pc' = [pc EXCEPT ![u] = AfterWait(out.status)]
    /\ Logged(u, <<Call("wait_for_ci", 0, "ok")>>)
    /\ UNCHANGED <<hvars, push, default_branch, listed, open_fix_prs, crew_output, file_changes,
                   nextChange, committed, pr>>
    /\ UNCHANGED <<wvars, avars, kvars>>

\* a request of the run listing raises inside wait_for_ci: nothing catches it
UnitWaitRaises(u) ==
    /\ pc[u] = "wait"
    /\ pc' = [pc EXCEPT ![u] = "raised"]
    /\ Logged(u, <<Call("wait_for_ci", 0, "raise")>>)
    /\ UNCHANGED <<hvars, push, status, failed_runs, default_branch, listed, open_fix_prs, crew_output,
                   file_changes, nextChange, committed, pr>>
    /\ UNCHANGED <<wvars, avars, kvars>>

\* the calls of a lookup whose k-th request raises: the requests before it
\* were answered
RaisedAt(ops, k) ==
    [i \in 1..k |-> Call(ops[i], 0, IF i = k THEN "raise" ELSE "ok")]

\* the first lines of _close_stale_fix_prs and of the guard: the default
\* branch and the open fix PRs of that base, as the unit gets them. The host's
\* default branch is 'main', so a non-200 answer to the first request gives
\* the unit the same branch as a 200 answer; the listing is answered (ol = "ok")
\* or refused (ol = "fail")
Lookup(u, ol) ==
    LET base == get_default_branch(200)
    IN  /\ default_branch' = [default_branch EXCEPT ![u] = base]
        /\ listed' = [listed EXCEPT ![u] =
                         [code |-> Code(ol),
                          prs |-> IF ol = "ok" THEN ListOpenPulls(pulls, base) ELSE <<>>]]
        /\ open_fix_prs' = [open_fix_prs EXCEPT ![u] =
                               get_open_fix_prs(Code(ol), pulls, base)]

\* line 293: the closure loop is entered when there is a PR to close
AfterStaleLookup(prs) == IF prs = <<>> THEN "done" ELSE "stale_comment"

\* lines 290-292 of _close_stale_fix_prs: client, default branch and the open
\* fix PRs; none of the three is inside a try
UnitStale(u) ==
    /\ pc[u] = "stale"
    /\ \/ \E k \in 1..3 :
            /\ pc' = [pc EXCEPT ![u] = "raised"]
            /\ Logged(u, RaisedAt(<<"for_repo", "get_default_branch", "list_pulls">>, k))
            /\ UNCHANGED <<default_branch, listed, open_fix_prs, nextChange>>
       \/ \E ol \in {"ok", "fail"} :
            /\ Lookup(u, ol)
            /\ nextChange' = [nextChange EXCEPT ![u] = 1]
            /\ pc' = [pc EXCEPT ![u] = AfterStaleLookup(open_fix_prs'[u])]
            /\ Logged(u, <<Call("for_repo", 0, "ok"), Call("get_default_branch", 0, "ok"),
                           Call("list_pulls", 0, ol)>>)
    /\ UNCHANGED <<hvars, push, status, failed_runs, crew_output, file_changes,
                   committed, pr>>
    /\ UNCHANGED <<wvars, avars, kvars>>

\* a slip: the loop ends after its first PR
NextStalePr_stop(u) ==
    /\ nextChange' = nextChange
    /\ pc' = [pc EXCEPT ![u] = "done"]

\* the `for pr in open_prs` loop moves to the next PR or ends
NextStalePr(u) ==
    IF nextChange[u] < Len(open_fix_prs[u])
    THEN /\ nextChange' = [nextChange EXCEPT ![u] = @ + 1]
         /\ pc' = [pc EXCEPT ![u] = "stale_comment"]
    ELSE /\ nextChange' = nextChange
         /\ pc' = [pc EXCEPT ![u] = "done"]

\* a slip: each request has a try of its own
CommentSkipsClose_never(o) == FALSE

\* lines 295 and 311: one try holds both requests of a PR, so an exception of
\* the comment request skips the close request
CommentSkipsClose(o) == o = "raise"

\* lines 296-302: the comment request; its status is not looked at, and an
\* exception skips the rest of this PR (line 311)
UnitStaleComment(u) ==
    /\ pc[u] = "stale_comment"
    /\ LET n == open_fix_prs[u][nextChange[u]].number
       IN  \E o \in Outcomes :
                /\ Logged(u, <<Call("comment", n, o)>>)
                /\ comments' = IF o = "ok" THEN comments \cup {[pr |-> n, unit |-> u]}
                               ELSE comments
                /\ IF CommentSkipsClose(o) THEN NextStalePr(u)
                   ELSE /\ pc' = [pc EXCEPT ![u] = "stale_close"]
                        /\ nextChange' = nextChange
    /\ UNCHANGED <<pulls, refs, files, store, push, status, failed_runs,
                   default_branch, listed, open_fix_prs, crew_output, file_changes,
                   committed, pr>>
    /\ UNCHANGED <<wvars, avars, kvars>>

\* lines 303-312: the close request, then the next PR
UnitStaleClose(u) ==
    /\ pc[u] = "stale_close"
    /\ LET n == open_fix_prs[u][nextChange[u]].number
       IN  \E o \in Outcomes :
                /\ Logged(u, <<Call("close", n, o)>>)
                /\ pulls' = IF o = "ok" THEN ClosePull(pulls, n) ELSE pulls
    /\ NextStalePr(u)
    /\ UNCHANGED <<refs, comments, files, store, push, status, failed_runs,
                   default_branch, listed, open_fix_prs, crew_output, file_changes,
                   committed, pr>>
    /\ UNCHANGED <<wvars, avars, kvars>>

\* a slip: the guard never blocks
AfterGuard_noGuard(prs) == "assemble"

\* line 117: `if open_fix_prs:` comments and returns, else the fix goes on
AfterGuard(prs) == IF prs # <<>> THEN "guard_comment" ELSE "assemble"

\* lines 113-127: the guard's two lookups; neither is inside a try
UnitGuard(u) ==
    /\ pc[u] = "guard"
    /\ \/ \E k \in 1..2 :
            /\ pc' = [pc EXCEPT ![u] = "raised"]
            /\ Logged(u, RaisedAt(<<"get_default_branch", "list_pulls">>, k))
            /\ UNCHANGED <<default_branch, listed, open_fix_prs>>
       \/ \E ol \in {"ok", "fail"} :
            /\ Lookup(u, ol)
            /\ pc' = [pc EXCEPT ![u] = AfterGuard(open_fix_prs'[u])]
            /\ Logged(u, <<Call("get_default_branch", 0, "ok"), Call("list_pulls", 0, ol)>>)
    /\ UNCHANGED <<hvars, push, status, failed_runs, crew_output, file_changes,
                   nextChange, committed, pr>>
    /\ UNCHANGED <<wvars, avars, kvars>>

\* _comment_on_existing_pr (lines 317-335) on open_fix_prs[0], then `return`:
\* the client is built outside the try, the request inside it
UnitGuardComment(u) ==
    /\ pc[u] = "guard_comment"
    /\ LET n == open_fix_prs[u][1].number
       IN  \/ /\ pc' = [pc EXCEPT ![u] = "raised"]
              /\ Logged(u, <<Call("for_repo", 0, "raise")>>)
              /\ comments' = comments
           \/ /\ pc' = [pc EXCEPT ![u] = "done"]
              /\ \E o \in Outcomes :
                   /\ Logged(u, <<Call("for_repo", 0, "ok"), Call("comment", n, o)>>)
                   /\ comments' = IF o = "ok" THEN comments \cup {[pr |-> n, unit |-> u]}
                                  ELSE comments
    /\ UNCHANGED <<pulls, refs, files, store, push, status, failed_runs,
                   default_branch, listed, open_fix_prs, crew_output, file_changes,
                   nextChange, committed, pr>>
    /\ UNCHANGED <<wvars, avars, kvars>>

\* the code files of the repository tree, as get_repo_tree lists them: the
\* length of the path, the reported size, the length of the content
HostTree ==
    << [path_len |-> 4, size |-> 60000, len |-> 60000],
       [path_len |-> 4, size |-> 120, len |-> 120] >>

MAX_SOURCE_CHARS == 30000
MaxFileSize == 50000

\* a slip: the walk stops only once the total is past the cap
CapReached_after(total) == total > MAX_SOURCE_CHARS

\* line 153: `if total_len >= MAX_SOURCE_CHARS: break`
CapReached(total) == total >= MAX_SOURCE_CHARS

\* line 155: `if f.get("size", 0) > 50_000: continue`
TooBig(f) == f.size > MaxFileSize

\* line 159: len(f"--- {f['path']} ---\n{content}")
part_len(path_len, content_len) == 4 + path_len + 5 + content_len

\* lines 152-161: the indices of the tree's files that are fetched, in order
RECURSIVE fetched(_, _, _)
fetched(tree, i, total) ==
    IF i > Len(tree) \/ CapReached(total) THEN <<>>
    ELSE IF TooBig(tree[i]) THEN fetched(tree, i + 1, total)
    ELSE <<i>> \o fetched(tree, i + 1,
                          IF tree[i].len > 0
                          THEN total + part_len(tree[i].path_len, tree[i].len)
                          ELSE total)

\* lines 129-185: the failure logs of every failed run, the tree, the source
\* files and the similar past fixes: all of them reads. The text of the bundle
\* is not part of this specification's state, and the failures the code
\* absorbs (a log fetch that raises, a tree answered non-200, a failing search)
\* change that text only. The tree and file requests are not inside a try
UnitAssemble(u) ==
    /\ pc[u] = "assemble"
    /\ LET logs == [i \in 1..Len(failed_runs[u]) |->
                       Call("get_logs", failed_runs[u][i].id, "ok")]
           fs == fetched(HostTree, 1, 0)
           gets == [i \in 1..Len(fs) |-> Call("get_file", fs[i], "ok")]
       IN  \/ /\ pc' = [pc EXCEPT ![u] = "raised"]
              /\ Logged(u, logs \o <<Call("get_tree", 0, "raise")>>)
           \/ /\ pc' = [pc EXCEPT ![u] = "raised"]
              /\ fs # <<>>
              /\ Logged(u, logs \o <<Call("get_tree", 0, "ok"),
                                      Call("get_file", fs[1], "raise")>>)
           \/ /\ pc' = [pc EXCEPT ![u] = "crew"]
              /\ Logged(u, logs \o <<Call("get_tree", 0, "ok")>> \o gets
                               \o <<Call("search", 0, "ok")>>)
    /\ UNCHANGED <<hvars, push, status, failed_runs, default_branch, listed,
                   open_fix_prs, crew_output, file_changes, nextChange, committed, pr>>
    /\ UNCHANGED <<wvars, avars, kvars>>

\* a slip: the `return` of the except branch is missing
AfterCrew_goOn(o) == "extract"

\* lines 195-199: `except Exception: ... return`
AfterCrew(o) == IF o = "raise" THEN "done" ELSE "extract"

\* lines 195-201: the reasoning step; its exception is caught and ends the run
UnitCrew(u) ==
    /\ pc[u] = "crew"
    /\ \/ /\ Logged(u, <<Call("kickoff", 0, "raise")>>)
          /\ pc' = [pc EXCEPT ![u] = AfterCrew("raise")]
          /\ UNCHANGED crew_output
       \/ \E report \in PipelineReports :
            /\ Logged(u, <<Call("kickoff", 0, "ok")>>)
            /\ crew_output' = [crew_output EXCEPT ![u] = report]
            /\ pc' = [pc EXCEPT ![u] = AfterCrew("ok")]
    /\ UNCHANGED <<hvars, push, status, failed_runs, default_branch, listed,
                   open_fix_prs, file_changes, nextChange, committed, pr>>
    /\ UNCHANGED <<wvars, avars, kvars>>

\* line 204: file_changes = parse_file_changes(crew_output)
UnitExtract(u) ==
    /\ pc[u] = "extract"
    /\ file_changes' = [file_changes EXCEPT ![u] = parse_file_changes(crew_output[u])]
    /\ pc' = [pc EXCEPT ![u] = "fallback"]
    /\ UNCHANGED <<hvars, push, status, failed_runs, default_branch, listed,
                   open_fix_prs, crew_output, nextChange, committed, pr, calls>>
    /\ UNCHANGED <<wvars, avars, kvars>>

\* lines 205-214: without an extracted edit the advisory document is the
\* edit list
UnitFallback(u) ==
    /\ pc[u] = "fallback"
    /\ file_changes' = [file_changes EXCEPT ![u] =
                           with_advisory(@, failed_runs[u], push[u].head_sha, crew_output[u])]
    /\ nextChange' = [nextChange EXCEPT ![u] = 1]
    /\ pc' = [pc EXCEPT ![u] = "branch"]
    /\ UNCHANGED <<hvars, push, status, failed_runs, default_branch, listed,
                   open_fix_prs, crew_output, committed, pr, calls>>
    /\ UNCHANGED <<wvars, avars, kvars>>

\* a slip: the 422 answer is taken for a failure
AfterBranch_existsFails(res) == IF res = "ok" THEN "commit" ELSE "done"

\* a slip: the `return` after a failed create_branch is missing
AfterBranch_goOn(res) == "commit"

\* lines 219-223: an exception of create_branch ends the run
AfterBranch(res) == IF res = "raise" THEN "done" ELSE "commit"

\* lines 216-223 and create_branch: the base ref is read and the new ref is
\* posted. The host answers 422 when the ref exists, which create_branch
\* returns as "already_exists"; every other failure raises (a base ref that
\* cannot be read, a refused POST) and the run ends
UnitBranch(u) ==
    /\ pc[u] = "branch"
    /\ \E o \in Returns :
         LET name == fix_branch(push[u].head_sha)
             base == default_branch[u]
             res == IF base \notin refs THEN "raise"
                    ELSE IF o = "ok" /\ name \in refs THEN "exists"
                    ELSE o
         IN  /\ Logged(u, <<Call("create_branch", [name |-> name, base |-> base], res)>>)
             /\ refs' = IF res = "ok" THEN refs \cup {name} ELSE refs
             /\ pc' = [pc EXCEPT ![u] = AfterBranch(res)]
    /\ UNCHANGED <<pulls, comments, files, store, push, status, failed_runs,
                   default_branch, listed, open_fix_prs, crew_output, file_changes,
                   nextChange, committed, pr>>
    /\ UNCHANGED <<wvars, avars, kvars>>

\* a slip: the `if not committed: return` is missing
AfterCommit_noZeroCheck(i, n, done) == IF i < n THEN "commit" ELSE "find_pr"

\* lines 226 and 239-241: the loop goes to the next edit; after the last one,
\* no committed file ends the run
AfterCommit(i, n, done) ==
    IF i < n THEN "commit" ELSE IF done = <<>> THEN "done" ELSE "find_pr"

\* lines 225-241: one round of the commit loop; a failing commit is logged
\* and skipped; after the last edit, no committed file ends the run
UnitCommit(u) ==
    /\ pc[u] = "commit"
    /\ LET i == nextChange[u]
           change == file_changes[u][i]
       IN  /\ \E o \in Returns :
                LET done == IF o = "ok" THEN Append(committed[u], change.path)
                            ELSE committed[u]
                IN  /\ Logged(u, <<Call("commit_file", i, o)>>)
                    /\ committed' = [committed EXCEPT ![u] = done]
                    /\ files' = IF o = "ok"
                                THEN Append(files, [branch |-> fix_branch(push[u].head_sha),
                                                    path |-> change.path, unit |-> u])
                                ELSE files
                    /\ pc' = [pc EXCEPT ![u] = AfterCommit(i, Len(file_changes[u]), done)]
           /\ nextChange' = [nextChange EXCEPT ![u] = i + 1]
    /\ UNCHANGED <<pulls, refs, comments, store, push, status, failed_runs,
                   default_branch, listed, open_fix_prs, crew_output, file_changes, pr>>
    /\ UNCHANGED <<wvars, avars, kvars>>

\* a slip: the PR body lists the first committed path only
pr_body_firstOnly(done) == SubSeq(done, 1, 1)

\* lines 244 and 254: the paths the PR body lists under "Files Changed"
pr_body(done) == done

\* create_pr, lines 258-268: an open PR of the fix branch is returned as is;
\* the call's argument is the number of the PR found, 0 when none was
UnitFindPr(u) ==
    /\ pc[u] = "find_pr"
    /\ \E o \in Outcomes :
         LET existing_prs == ListOpenPullsByHead(pulls, fix_branch(push[u].head_sha))
             found == IF o = "ok" /\ existing_prs # <<>> THEN existing_prs[1].number ELSE 0
         IN  /\ Logged(u, <<Call("find_pr", found, o)>>)
             /\ IF o = "raise"
                THEN /\ pc' = [pc EXCEPT ![u] = "done"]
                     /\ pr' = pr
                ELSE IF o = "ok" /\ existing_prs # <<>>
                THEN /\ pc' = [pc EXCEPT ![u] = "store"]
                     /\ pr' = [pr EXCEPT ![u] = existing_prs[1].number]
                ELSE /\ pc' = [pc EXCEPT ![u] = "post_pr"]
                     /\ pr' = pr
    /\ UNCHANGED <<hvars, push, status, failed_runs, default_branch, listed, open_fix_prs,
                   crew_output, file_changes, nextChange, committed>>
    /\ UNCHANGED <<wvars, avars, kvars>>

\* create_pr, lines 270-295: the PR is posted; the host answers 422 when the
\* head already has an open PR to that base; every failure raises and the
\* run ends (lines 267-269)
UnitPostPr(u) ==
    /\ pc[u] = "post_pr"
    /\ \E o \in Returns :
         LET head == fix_branch(push[u].head_sha)
             dup == \E i \in 1..Len(pulls) :
                       /\ pulls[i].state = "open"
                       /\ pulls[i].head = head
                       /\ pulls[i].base = default_branch[u]
         IN  /\ Logged(u, <<Call("create_pull", 0, IF dup THEN "raise" ELSE o)>>)
             /\ IF o = "ok" /\ ~dup
                THEN /\ pulls' = <<[PR(NextPrNumber(pulls), head, default_branch[u])
                                        EXCEPT !.body = pr_body(committed[u])]>> \o pulls
                     /\ pr' = [pr EXCEPT ![u] = NextPrNumber(pulls)]
                     /\ pc' = [pc EXCEPT ![u] = "store"]
                ELSE /\ pulls' = pulls
                     /\ pr' = pr
                     /\ pc' = [pc EXCEPT ![u] = "done"]
    /\ UNCHANGED <<refs, comments, files, store, push, status, failed_runs,
                   default_branch, listed, open_fix_prs, crew_output, file_changes,
                   nextChange, committed>>
    /\ UNCHANGED <<wvars, avars, kvars>>

\* a slip: the record holds the edits whose commit was accepted
RECURSIVE stored_changes_committed(_, _)
stored_changes_committed(fc, done) ==
    IF fc = <<>> THEN <<>>
    ELSE (IF \E k \in 1..Len(done) : done[k] = Head(fc).path THEN <<Head(fc)>> ELSE <<>>)
             \o stored_changes_committed(Tail(fc), done)

\* line 279: file_changes=file_changes, the whole edit list
stored_changes(fc, done) == fc

\* lines 271-283 and store_fix: the record is indexed; without a client, or
\* when indexing raises, nothing is stored and the run ends all the same
UnitStore(u) ==
    /\ pc[u] = "store"
    /\ \E o \in {"ok", "fail"} :
         /\ Logged(u, <<Call("store_fix", 0, o)>>)
         /\ store' = IF o = "ok"
                     THEN Append(store, [head_sha |-> push[u].head_sha,
                                         branch |-> push[u].branch,
                                         file_changes |->
                                             stored_changes(file_changes[u], committed[u]),
                                         pr_url |-> pr[u]])
                     ELSE store
    /\ pc' = [pc EXCEPT ![u] = "done"]
    /\ UNCHANGED <<pulls, refs, comments, files, push, status, failed_runs,
                   default_branch, listed, open_fix_prs, crew_output, file_changes,
                   nextChange, committed, pr>>
    /\ UNCHANGED <<wvars, avars, kvars>>

Next ==
    \E u \in Units :
        \/ UnitStart(u)
        \/ UnitWait(u)
        \/ UnitWaitRaises(u)
        \/ UnitStale(u)
        \/ UnitStaleComment(u)
        \/ UnitStaleClose(u)
        \/ UnitGuard(u)
        \/ UnitGuardComment(u)
        \/ UnitAssemble(u)
        \/ UnitCrew(u)
        \/ UnitExtract(u)
        \/ UnitFallback(u)
        \/ UnitBranch(u)
        \/ UnitCommit(u)
        \/ UnitFindPr(u)
        \/ UnitPostPr(u)
        \/ UnitStore(u)

Spec == Init /\ [][Next]_vars

-----------------------------------------------------------------------------
(* The source walk of process_push, lines 145-163, step by step *)

\* the code files get_repo_tree may list: the length of the path and the
\* reported size in bytes
TreeFiles ==
    { [path_len |-> 4, size |-> 120],
      [path_len |-> 4, size |-> 50000],
      [path_len |-> 4, size |-> 50001] }

Trees == UNION {[1..n -> TreeFiles] : n \in 0..MaxFiles}

\* what get_file_content may return for a file: None (-1, a non-200 answer)
\* or a text of some length, which has no more characters than the file has
\* bytes
ContentLens(f) == {-1} \cup {n \in {0, 100, 29873, 29874, 45000} : n <= f.size}

WalkInit ==
    /\ WaitIdle
    /\ PipelineIdle
    /\ HookIdle
    /\ repo_files \in Trees
    /\ walk_i = IF repo_files = <<>> THEN 0 ELSE 1
    /\ total_len = 0
    /\ source_parts = <<>>
    /\ fetches = <<>>
    /\ jobs_answer = <<>>
    /\ run_logs = NotReturned

\* `for f in repo_files`: the next file, 0 when the list is exhausted
NextFile(i) == IF i < Len(repo_files) THEN i + 1 ELSE 0

\* lines 153-154
WalkBreak ==
    /\ walk_i >= 1
    /\ CapReached(total_len)
    /\ walk_i' = 0
    /\ UNCHANGED <<repo_files, total_len, source_parts, fetches, jobs_answer, run_logs>>
    /\ UNCHANGED <<wvars, pvars, kvars>>

\* lines 155-156
WalkSkip ==
    /\ walk_i >= 1
    /\ ~CapReached(total_len)
    /\ TooBig(repo_files[walk_i])
    /\ walk_i' = NextFile(walk_i)
    /\ UNCHANGED <<repo_files, total_len, source_parts, fetches, jobs_answer, run_logs>>
    /\ UNCHANGED <<wvars, pvars, kvars>>

\* lines 157-161: the content is requested; a non-empty one is appended with
\* its path header and counted
WalkFetch ==
    /\ walk_i >= 1
    /\ ~CapReached(total_len)
    /\ ~TooBig(repo_files[walk_i])
    /\ fetches' = Append(fetches, walk_i)
    /\ \E c \in ContentLens(repo_files[walk_i]) :
         LET n == part_len(repo_files[walk_i].path_len, c)
         IN  IF c > 0
             THEN /\ total_len' = total_len + n
                  /\ source_parts' = Append(source_parts, [file |-> walk_i, len |-> n])
             ELSE UNCHANGED <<total_len, source_parts>>
    /\ walk_i' = NextFile(walk_i)
    /\ UNCHANGED <<repo_files, jobs_answer, run_logs>>
    /\ UNCHANGED <<wvars, pvars, kvars>>

WalkNext == WalkBreak \/ WalkSkip \/ WalkFetch

SpecWalk == WalkInit /\ [][WalkNext]_vars

\* line 163: len("\n\n".join(source_parts))
RECURSIVE source_code_len(_)
source_code_len(parts) ==
    IF parts = <<>> THEN 0
    ELSE IF Len(parts) = 1 THEN parts[1].len
    ELSE parts[1].len + 2 + source_code_len(Tail(parts))

-----------------------------------------------------------------------------
(* get_workflow_run_logs for a run with one job *)

LOG_TAIL == 6000

LogChars == <<"0", "1", "2", "3", "4", "5", "6", "7", "8", "9">>

\* a log of n characters; the character at position i tells i's last digit
LogText(n) == [i \in 1..n |-> LogChars[(i % 10) + 1]]

TruncationMarker == <<"...(truncated)...\n">>

\* a slip: the head of the log is kept
truncate_head(text) ==
    IF Len(text) > LOG_TAIL THEN TruncationMarker \o SubSeq(text, 1, LOG_TAIL) ELSE text

\* lines 175-176: text = "...(truncated)...\n" + text[-6000:]
truncate(text) ==
    IF Len(text) > LOG_TAIL
    THEN TruncationMarker \o SubSeq(text, Len(text) - LOG_TAIL + 1, Len(text))
    ELSE text

JobHeader == <<"=== Job: build (id 1) ===\n">>

\* lines 155-181 for one job: "" when the job listing is refused, the
\* placeholder when no failed job gave a log, else the job's header and log
get_workflow_run_logs(ans) ==
    IF ans.code # 200 THEN <<>>
    ELSE IF ans.conclusion # "failure" \/ ans.log_code # 200
    THEN <<"No failure logs available">>
    ELSE JobHeader \o truncate(ans.text)

JobsAnswers ==
    { [code |-> c, conclusion |-> k, log_code |-> l, text |-> LogText(n)] :
        c \in {200, 500}, k \in {"failure", "success"}, l \in {200, 404},
        n \in (LOG_TAIL - MaxSlack)..(LOG_TAIL + MaxSlack) }

LogsInit ==
    /\ WaitIdle
    /\ PipelineIdle
    /\ HookIdle
    /\ repo_files = <<>> /\ walk_i = 0 /\ total_len = 0 /\ source_parts = <<>>
    /\ fetches = <<>>
    /\ jobs_answer \in JobsAnswers
    /\ run_logs = NotReturned

LogsFetch ==
    /\ ~run_logs.returned
    /\ run_logs' = [returned |-> TRUE, text |-> get_workflow_run_logs(jobs_answer)]
    /\ UNCHANGED <<repo_files, walk_i, total_len, source_parts, fetches, jobs_answer>>
    /\ UNCHANGED <<wvars, pvars, kvars>>

SpecLogs == LogsInit /\ [][LogsFetch]_vars

-----------------------------------------------------------------------------
(* parse_file_changes and the advisory fallback, on reports of many shapes *)

BlockPaths == {<<" ", "a">>, <<" ">>, <<"b", " ">>}

BlockContents == {<<"1", "\n">>, <<"\n">>}

\* the pieces of '===FILE:<p>===\n<c>===END FILE==='
Block(p, c) == <<FileTok(p), [k |-> "text", s |-> c], EndTok>>

Pieces ==
    {Block(p, c) : p \in BlockPaths, c \in BlockContents}
        \cup {<<Txt("\n")>>, <<Txt("x")>>}

RECURSIVE Flatten(_)
Flatten(ps) == IF ps = <<>> THEN <<>> ELSE Head(ps) \o Flatten(Tail(ps))

\* reports made of whole blocks and plain text
BlockReports ==
    { [tokens |-> Flatten(ps), json |-> NotJson] :
        ps \in UNION {[1..n -> Pieces] : n \in 0..MaxPieces} }

\* elements of a 'files' list: objects with both keys (one of them with empty
\* strings), an object without 'content', and a value that is no object
JsonElems ==
    { [has_path |-> TRUE, has_content |-> TRUE, path |-> <<"a">>, content |-> <<"x">>],
      [has_path |-> TRUE, has_content |-> TRUE, path |-> <<"b">>, content |-> <<"y">>],
      [has_path |-> TRUE, has_content |-> TRUE, path |-> <<>>, content |-> <<>>],
      [has_path |-> TRUE, has_content |-> FALSE, path |-> <<"a">>, content |-> <<>>],
      [has_path |-> FALSE, has_content |-> FALSE, path |-> <<>>, content |-> <<>>] }

JsonValues ==
    { [kind |-> k, files |-> <<>>] : k \in {"not_object", "no_files", "files_not_list"} }
        \cup { [kind |-> "files_list", files |-> f] :
                 f \in UNION {[1..n -> JsonElems] : n \in 0..MaxElems} }

\* reports that are JSON texts: no block of the pattern is in them
JsonReports == { [tokens |-> <<Txt("{")>>, json |-> j] : j \in JsonValues }

ParseReports == BlockReports \cup JsonReports

\* unit 1 is about to extract the edits of the report it got; unit 2 is over
ParseInit ==
    /\ WaitIdle
    /\ AssemblerIdle
    /\ HookIdle
    /\ pulls = <<>> /\ refs = {Main} /\ comments = {} /\ files = <<>> /\ store = <<>>
    /\ pc = [u \in Units |-> IF u = 1 THEN "extract" ELSE "done"]
    /\ push = [u \in Units |-> [head_sha |-> ShaA, branch |-> Main]]
    /\ status = [u \in Units |-> IF u = 1 THEN "failure" ELSE "none"]
    /\ failed_runs \in
         { [u \in Units |-> IF u = 1 THEN failed(MkRuns(k)) ELSE <<>>] :
             k \in { <<[status |-> "completed", conclusion |-> "failure"]>>,
                     <<[status |-> "completed", conclusion |-> "success"],
                       [status |-> "completed", conclusion |-> "cancelled"]>> } }
    /\ default_branch = [u \in Units |-> IF u = 1 THEN Main ELSE <<>>]
    /\ listed = [u \in Units |-> NotListed]
    /\ open_fix_prs = [u \in Units |-> <<>>]
    /\ crew_output \in
         { [u \in Units |-> IF u = 1 THEN r ELSE NoReport] : r \in ParseReports }
    /\ file_changes = [u \in Units |-> <<>>]
    /\ nextChange = [u \in Units |-> 0]
    /\ committed = [u \in Units |-> <<>>]
    /\ pr = [u \in Units |-> 0]
    /\ calls = [u \in Units |-> <<>>]

ParseNext == \E u \in Units : UnitExtract(u) \/ UnitFallback(u)

SpecParse == ParseInit /\ [][ParseNext]_vars

-----------------------------------------------------------------------------
(* handle_webhook: the endpoint that schedules process_push *)

\* "sha256=" + hmac.new(key, body, sha256).hexdigest(): two digests are equal
\* when key and body are
Hmac(key, body) == [present |-> TRUE, key |-> key, body |-> body]

\* a slip: the signature is not compared
verify_signature_noCheck(secret, payload_body, signature_header) == TRUE

\* verify_signature (lines 27-37): no secret configured, no verification
verify_signature(secret, payload_body, signature_header) ==
    IF secret = "" THEN TRUE
    ELSE IF ~signature_header.present THEN FALSE
    ELSE Hmac(secret, payload_body) = signature_header

RefsHeads == <<"r", "e", "f", "s", "/", "h", "e", "a", "d", "s", "/">>

\* s.removeprefix(p)
RemovePrefix(s, p) == IF StartsWith(s, p) THEN SubSeq(s, Len(p) + 1, Len(s)) ELSE s

ZeroSha == Rep("0", ShaLen)

RepoName == <<"o", "/", "r">>

Answer(code, st) == [code |-> code, status |-> st]

\* lines 343-384: the answer and the tasks added. A body that is not JSON
\* makes json.loads raise and a JSON body that is not an object makes
\* data.get raise: the framework answers 500
handle_webhook(secret, req) ==
    LET data == req.body
    IN  IF ~verify_signature(secret, data, req.signature)
        THEN [response |-> Answer(401, "error"), added |-> <<>>]
        ELSE IF data.kind = "not_json"
        THEN [response |-> Answer(500, "error"), added |-> <<>>]
        ELSE IF req.event # "push"
        THEN [response |-> Answer(200, "skipped"), added |-> <<>>]
        ELSE IF data.kind # "object"
        THEN [response |-> Answer(500, "error"), added |-> <<>>]
        ELSE IF data.repo = <<>> \/ data.after = <<>>
        THEN [response |-> Answer(400, "error"), added |-> <<>>]
        ELSE IF data.after = ZeroSha
        THEN [response |-> Answer(200, "skipped"), added |-> <<>>]
        ELSE [response |-> Answer(200, "accepted"),
              added |-> <<[repo |-> data.repo, head_sha |-> data.after,
                           branch |-> RemovePrefix(data.ref, RefsHeads)]>>]

\* the bodies a request may carry: text that is not JSON, JSON that is not an
\* object, and objects with or without a repository name, with a commit SHA
\* that is missing, all zeros, one zero short of that, or a commit's
Bodies ==
    { NoBody, [kind |-> "not_object", repo |-> <<>>, after |-> <<>>, ref |-> <<>>] }
        \cup { [kind |-> "object", repo |-> r, after |-> a, ref |-> f] :
                 r \in {<<>>, RepoName},
                 a \in {<<>>, ZeroSha, Rep("0", ShaLen - 1), ShaA},
                 f \in {<<>>, RefsHeads \o Main} }

\* the X-Hub-Signature-256 header: absent, the digest of this body under the
\* configured or another key, or the digest of another body
OtherBody == [kind |-> "object", repo |-> RepoName, after |-> ShaB, ref |-> <<>>]

SignaturesOf(body) ==
    { NoHeader, Hmac("s", body), Hmac("t", body), Hmac("s", OtherBody) }

\* X-GitHub-Event; "unknown" when the header is absent
Events == {"push", "ping", "unknown"}

Requests ==
    UNION { { [signature |-> g, event |-> e, body |-> b] :
                g \in SignaturesOf(b), e \in Events } : b \in Bodies }

HookInit ==
    /\ WaitIdle
    /\ PipelineIdle
    /\ AssemblerIdle
    /\ webhook_secret \in {"", "s"}
    /\ request = NoRequest /\ response = NoResponse
    /\ background_tasks = <<>> /\ tasks = <<>> /\ handled = 0

\* one request is answered; the tasks it added run after the response
HandleWebhook ==
    /\ handled < MaxRequests
    /\ \E req \in Requests :
         LET out == handle_webhook(webhook_secret, req)
         IN  /\ request' = req
             /\ response' = out.response
             /\ background_tasks' = out.added
             /\ tasks' = tasks \o out.added
    /\ handled' = handled + 1
    /\ UNCHANGED webhook_secret
    /\ UNCHANGED <<wvars, pvars, avars>>

SpecHook == HookInit /\ [][HandleWebhook]_vars

-----------------------------------------------------------------------------
(* Properties of process_push *)

Range(s) == {s[i] : i \in 1..Len(s)}

OpsOf(u) == {calls[u][i].op : i \in 1..Len(calls[u])}

IsHostWrite(c) == c.op \in {"comment", "close", "create_branch", "commit_file", "create_pull"}

IsClosureCall(c) == c.op \in {"comment", "close"}

IsComment(c) == c.op = "comment"

HasFixHead(q) == StartsWith(q.head, <<"f", "i", "x", "/", "c", "i", "-">>)

\* the fix PRs of the answer to the unit's list-pulls request, in its order
ListedFixPrs(u) == SelectSeq(listed[u].prs, HasFixHead)

CreationPhase ==
    {"assemble", "crew", "extract", "fallback", "branch", "commit", "find_pr", "post_pr"}

OpenFixPrOnDefault ==
    \E i \in 1..Len(pulls) :
        pulls[i].state = "open" /\ pulls[i].base = HostDefaultBranch /\ HasFixHead(pulls[i])

C7_NoCiTimeoutNoEffect ==
    /\ [](\A u \in Units :
            status[u] \in {"no_ci", "timeout"}
            => /\ pc[u] = "done"
               /\ OpsOf(u) = {"for_repo", "wait_for_ci"} /\ Len(calls[u]) = 2
               /\ default_branch[u] = <<>> /\ listed[u] = NotListed
               /\ committed[u] = <<>> /\ pr[u] = 0
               /\ \A c \in comments : c.unit # u
               /\ \A i \in 1..Len(files) : files[i].unit # u)
    /\ [][\A u \in Units :
            (calls'[u] # calls[u] /\ status'[u] \in {"no_ci", "timeout"})
            => UNCHANGED hvars]_vars

\* one unit ended on a timeout, the other on no_ci
C7_Witness ==
    \E u, v \in Units :
        /\ status[u] = "timeout" /\ pc[u] = "done"
        /\ status[v] = "no_ci" /\ pc[v] = "done"

\* the comment and close requests of the closure, in order
ClosureCalls(u) == SelectSeq(calls[u], IsClosureCall)

\* C8 as stated: when a unit whose CI outcome is success has returned, every
\* fix PR of its listing was sent a comment request and then a close request;
\* with no such PR no comment and no close request was sent.
C8_AllClosed ==
    \A u \in Units :
        (status[u] = "success" /\ pc[u] = "done")
        => LET T == ListedFixPrs(u)
               W == ClosureCalls(u)
           IN  /\ T = <<>> => W = <<>>
               /\ \A k \in 1..Len(T) :
                    \E i \in 1..Len(W) - 1 :
                        /\ W[i].op = "comment" /\ W[i].arg = T[k].number
                        /\ W[i + 1].op = "close" /\ W[i + 1].arg = T[k].number

\* C8 as amended: when the CI outcome is success, the fix PRs of the listing
\* are handled in its order; each is sent a comment request and, unless that
\* request raised, then a close request; a PR whose comment the host accepted
\* carries it, a PR whose close request the host accepted is closed; once the
\* unit has returned no PR of the listing was left out, and with no fix PR in
\* the listing no comment and no close request is sent.
C8_StaleClose ==
    \A u \in Units :
        status[u] = "success"
        => LET T == ListedFixPrs(u)
               W == ClosureCalls(u)
               Cm == SelectSeq(W, IsComment)
           IN  /\ T = <<>> => W = <<>>
               /\ Len(Cm) <= Len(T)
               /\ \A k \in 1..Len(Cm) : Cm[k].arg = T[k].number
               /\ \A i \in 1..Len(W) :
                    /\ W[i].op = "close"
                       => /\ i > 1 /\ W[i - 1].op = "comment"
                          /\ W[i - 1].arg = W[i].arg /\ W[i - 1].res # "raise"
                    /\ (W[i].op = "comment" /\ W[i].res # "raise" /\ i < Len(W))
                       => W[i + 1].op = "close"
                    /\ (W[i].op = "comment" /\ W[i].res = "ok")
                       => [pr |-> W[i].arg, unit |-> u] \in comments
                    /\ (W[i].op = "close" /\ W[i].res = "ok")
                       => \E j \in 1..Len(pulls) :
                             pulls[j].number = W[i].arg /\ pulls[j].state = "closed"
               /\ pc[u] = "done"
                  => /\ Len(Cm) = Len(T)
                     /\ W # <<>> => (W[Len(W)].op = "close" \/ W[Len(W)].res = "raise")

\* two fix PRs listed: the comment on the first raised, the second was
\* commented on and closed
C8_Witness ==
    \E u \in Units :
        /\ status[u] = "success" /\ pc[u] = "done" /\ Len(ListedFixPrs(u)) = 2
        /\ LET W == ClosureCalls(u)
           IN  /\ Len(W) = 3 /\ W[1].res = "raise"
               /\ W[2] = Call("comment", ListedFixPrs(u)[2].number, "ok")
               /\ W[3] = Call("close", ListedFixPrs(u)[2].number, "ok")

\* C9: a unit whose CI outcome is success calls neither the reasoning step
\* nor create-branch, commit-file, create-pull, nor the store (search or
\* write); none of its steps, the closing of stale PRs included, changes the
\* stored records, the branches, the committed files or the number of PRs.
C9_SuccessFrame ==
    /\ [](\A u \in Units :
            status[u] = "success"
            => /\ OpsOf(u) \cap {"kickoff", "create_branch", "commit_file", "find_pr",
                                 "create_pull", "search", "store_fix"} = {}
               /\ committed[u] = <<>> /\ pr[u] = 0
               /\ \A i \in 1..Len(files) : files[i].unit # u)
    /\ [][\A u \in Units :
            (calls'[u] # calls[u] /\ status'[u] = "success")
            => /\ store' = store /\ refs' = refs /\ files' = files
               /\ Len(pulls') = Len(pulls)]_vars

\* a unit on the success path closed the fix PR whose record is in the store
C9_Witness ==
    \E u \in Units :
        /\ status[u] = "success" /\ pc[u] = "done" /\ Len(store) = 1
        /\ Call("close", store[1].pr_url, "ok") \in Range(calls[u])

\* C10: when the reasoning step raised, the run has ended: its last call is
\* that one, and create-branch, commit-file, create-pull and store-fix are
\* never called.
C10_CrewFailureStops ==
    \A u \in Units :
        Call("kickoff", 0, "raise") \in Range(calls[u])
        => /\ pc[u] = "done"
           /\ calls[u][Len(calls[u])] = Call("kickoff", 0, "raise")
           /\ OpsOf(u) \cap {"create_branch", "commit_file", "find_pr", "create_pull",
                             "store_fix"} = {}
           /\ committed[u] = <<>> /\ pr[u] = 0
           /\ \A i \in 1..Len(files) : files[i].unit # u

\* the reasoning step raised in one unit while the other opened its PR
C10_Witness ==
    \E u, v \in Units :
        /\ Call("kickoff", 0, "raise") \in Range(calls[u]) /\ pc[u] = "done"
        /\ pr[v] # 0

IsCommit(c) == c.op = "commit_file"

IsAccepted(c) == c.res = "ok"

\* the unit's create_branch returned (created or already there)
BranchStepDone(u) ==
    \E i \in 1..Len(calls[u]) :
        calls[u][i].op = "create_branch" /\ calls[u][i].res # "raise"

\* C11: once create_branch returned, the k-th commit_file call of a unit is
\* for the k-th edit of its edit list, whatever the earlier commits answered,
\* and when the loop has ended every edit had its one call; the committed list
\* holds the paths of the accepted commits in that order; a unit none of whose
\* commits was accepted has returned and never calls create-pull or store-fix.
C11_CommitIsolation ==
    \A u \in Units :
        LET cm == SelectSeq(calls[u], IsCommit)
            fc == file_changes[u]
            acc == SelectSeq(cm, IsAccepted)
        IN  /\ Len(cm) <= Len(fc)
            /\ \A k \in 1..Len(cm) : cm[k].arg = k
            /\ committed[u] = [k \in 1..Len(acc) |-> fc[acc[k].arg].path]
            /\ cm # <<>> => BranchStepDone(u)
            /\ (BranchStepDone(u) /\ pc[u] # "commit")
               => /\ Len(cm) = Len(fc) /\ fc # <<>>
                  /\ acc = <<>>
                     => /\ pc[u] = "done"
                        /\ OpsOf(u) \cap {"find_pr", "create_pull", "store_fix"} = {}
                        /\ pr[u] = 0

\* the first of two commits failed, the second was made and accepted, and the
\* run went on to the PR
C11_Witness ==
    \E u \in Units :
        /\ Len(file_changes[u]) = 2
        /\ SelectSeq(calls[u], IsCommit)
             = <<Call("commit_file", 1, "raise"), Call("commit_file", 2, "ok")>>
        /\ committed[u] = <<file_changes[u][2].path>>
        /\ pr[u] # 0


C13_NoEscape == \A u \in Units : pc[u] # "raised"


-----------------------------------------------------------------------------
(* Properties of parse_file_changes and of the advisory fallback *)

\* position of the first end marker among the pieces from i on, 0 if none
RECURSIVE EndPiece(_, _)
EndPiece(ts, i) ==
    IF i > Len(ts) THEN 0 ELSE IF ts[i].k = "end" THEN i ELSE EndPiece(ts, i + 1)

\* the blocks a report is made of, as its pieces spell them: a header, the
\* text up to the next end marker, the end marker
RECURSIVE WrittenBlocks(_, _)
WrittenBlocks(ts, i) ==
    IF i > Len(ts) THEN <<>>
    ELSE IF ts[i].k # "file" THEN WrittenBlocks(ts, i + 1)
    ELSE LET e == EndPiece(ts, i + 1)
         IN  IF e = 0 THEN <<>>
             ELSE <<[path |-> ts[i].s, content |-> Concat(SubSeq(ts, i + 1, e - 1))]>>
                      \o WrittenBlocks(ts, e + 1)

IsFullEdit(c) == c.path # <<>> /\ c.content # <<>>

\* one edit per written block with a path and a content left after trimming
ExpectedEdits(ts) ==
    LET bs == WrittenBlocks(ts, 1)
    IN  SelectSeq([i \in 1..Len(bs) |->
                      [path |-> Strip(bs[i].path), content |-> Strip(bs[i].content)]],
                  IsFullEdit)

NoBlockIn(ts) == \A i \in 1..Len(ts) : ts[i].k = "text"

CompleteElems(fs) == \A i \in 1..Len(fs) : fs[i].has_path /\ fs[i].has_content

\* C14: for a report made of whole blocks (and text between them),
\* parse_file_changes returns one edit per block whose trimmed path and
\* trimmed content are not empty, in order, trimmed; the other blocks leave
\* no trace.
C14_PrimaryGrammar ==
    \A u \in Units :
        (pc[u] = "fallback" /\ crew_output[u].json.kind = "not_json")
        => file_changes[u] = ExpectedEdits(crew_output[u].tokens)

\* C15: for a report without a block that is a JSON object whose 'files' is a
\* list of objects with 'path' and 'content', parse_file_changes returns one
\* edit per element, in order; whenever the pattern gave an edit, the result
\* is the pattern's.
C15_JsonFallback ==
    \A u \in Units :
        pc[u] = "fallback"
        => LET r == crew_output[u]
               fc == file_changes[u]
           IN  /\ (/\ NoBlockIn(r.tokens)
                   /\ r.json.kind = "files_list"
                   /\ CompleteElems(r.json.files))
                  => /\ Len(fc) = Len(r.json.files)
                     /\ \A i \in 1..Len(fc) :
                          fc[i] = [path |-> r.json.files[i].path,
                                   content |-> r.json.files[i].content]
               /\ primary_changes(r) # <<>> => fc = primary_changes(r)

\* a list of two objects, the first with empty strings, gave two edits
C15_Witness ==
    /\ pc[1] = "fallback"
    /\ crew_output[1].json.kind = "files_list"
    /\ Len(crew_output[1].json.files) = 2
    /\ CompleteElems(crew_output[1].json.files)
    /\ Len(file_changes[1]) = 2
    /\ file_changes[1][1].path = <<>>
    /\ file_changes[1][2].path = <<"a">>

\* C16: for a report without a block that is not a well-formed
\* {files: [{path, content}, ...]} object (no JSON, no object, no 'files', no
\* list, or an element without 'path' or 'content'), parse_file_changes
\* returns the empty list.
C16_MalformedJson ==
    \A u \in Units :
        (/\ pc[u] = "fallback"
         /\ NoBlockIn(crew_output[u].tokens)
         /\ \/ crew_output[u].json.kind # "files_list"
            \/ ~CompleteElems(crew_output[u].json.files))
        => file_changes[u] = <<>>

\* C17: the edit list handed to the branch and commit steps is never empty;
\* when extraction gave no edit it is the one advisory edit, with the path
\* 'fixes/ci-fix-<id of the first failed run>.md' and a content that ends
\* with the report's text; when extraction gave edits it is those.
C17_AdvisoryFallback ==
    /\ [](\A u \in Units :
            pc[u] \in {"branch", "commit", "find_pr", "post_pr", "store"}
            => file_changes[u] # <<>>)
    /\ [][\A u \in Units :
            (pc[u] = "fallback" /\ pc'[u] # "fallback")
            => IF file_changes[u] # <<>> THEN file_changes'[u] = file_changes[u]
               ELSE LET fc == file_changes'[u]
                        text == Concat(crew_output[u].tokens)
                    IN  /\ Len(fc) = 1
                        /\ fc[1].path = <<"fixes/ci-fix-", ToString(failed_runs[u][1].id), ".md">>
                        /\ Len(fc[1].content) >= Len(text)
                        /\ SubSeq(fc[1].content, Len(fc[1].content) - Len(text) + 1,
                                  Len(fc[1].content)) = text]_vars

\* a JSON list whose first element lacks 'content' gave no edit, and the edit
\* list is the advisory document named after run 2
C17_Witness ==
    /\ pc[1] = "branch"
    /\ crew_output[1].json.kind = "files_list"
    /\ Len(file_changes[1]) = 1
    /\ file_changes[1][1].path = <<"fixes/ci-fix-", "2", ".md">>

-----------------------------------------------------------------------------
(* Properties of the source walk and of the job logs *)

\* C18: the concatenated source content never has more than 30,000
\* characters.
C18_SourceCap == source_code_len(source_parts) <= 30000

\* C19: the files whose content is requested are, while the walk runs, the
\* files before the loop position whose reported size is at most 50,000, in
\* tree order; no content is requested when the running total has reached
\* 30,000: the walk then ends without another request.
C19_FetchGuard ==
    /\ [](/\ \A k \in 1..Len(fetches) :
               /\ repo_files[fetches[k]].size <= 50000
               /\ k > 1 => fetches[k - 1] < fetches[k]
          /\ walk_i >= 1
             => {fetches[k] : k \in 1..Len(fetches)}
                  = {i \in 1..(walk_i - 1) : repo_files[i].size <= 50000})
    /\ [][fetches' # fetches => total_len < 30000]_vars
    /\ [][(walk_i >= 1 /\ total_len >= 30000 /\ walk_i' # walk_i)
            => walk_i' = 0 /\ UNCHANGED <<fetches, source_parts, total_len>>]_vars

\* two files brought the total to exactly 30,000 and the third, small enough
\* to be fetched, was not requested
C19_Witness ==
    /\ walk_i = 0 /\ total_len = 30000
    /\ Len(repo_files) = 3 /\ repo_files[3].size <= 50000
    /\ fetches = <<1, 2>>

\* C20: a job log of more than 6000 characters comes back as the truncation
\* marker followed by exactly its last 6000 characters, a log of at most 6000
\* characters comes back unchanged (after the job's header).
C20_LogTruncation ==
    (/\ run_logs.returned
     /\ jobs_answer.code = 200 /\ jobs_answer.conclusion = "failure"
     /\ jobs_answer.log_code = 200)
    => LET t == jobs_answer.text
           n == Len(t)
           body == Tail(run_logs.text)
       IN  IF n > 6000
           THEN /\ Len(body) = 6001
                /\ body[1] = "...(truncated)...\n"
                /\ \A i \in 1..6000 : body[i + 1] = t[n - 6000 + i]
           ELSE body = t

\* a log of 6001 characters was cut to its last 6000
C20_Witness ==
    /\ run_logs.returned
    /\ jobs_answer.code = 200 /\ jobs_answer.conclusion = "failure"
    /\ jobs_answer.log_code = 200
    /\ Len(jobs_answer.text) = 6001
    /\ Len(run_logs.text) = 6002
    /\ run_logs.text[3] = jobs_answer.text[2]

-----------------------------------------------------------------------------
(* Properties of handle_webhook *)

\* no secret is configured, or the header is the digest of the body under it
SignaturePasses ==
    \/ webhook_secret = ""
    \/ /\ request.signature.present
       /\ request.signature.key = webhook_secret
       /\ request.signature.body = request.body

\* the fields handle_webhook reads from the body; empty when they are absent
PushedRepo == request.body.repo
PushedSha == request.body.after

AllZeroSha == PushedSha = [i \in 1..40 |-> "0"]

-----------------------------------------------------------------------------
(* Properties of the whole pipeline *)

\* one push: the second unit has nothing to do
SoloInit ==
    /\ WaitIdle
    /\ AssemblerIdle
    /\ HookIdle
    /\ pulls \in InitPulls
    /\ refs = {Main, Dev} \cup {pulls[i].head : i \in 1..Len(pulls)}
    /\ comments = {}
    /\ files = <<>>
    /\ store = <<>>
    /\ pc = [u \in Units |-> IF u = 1 THEN "start" ELSE "done"]
    /\ push \in {[u \in Units |-> p] : p \in PushesOf(2)}
    /\ status = [u \in Units |-> "none"]
    /\ failed_runs = [u \in Units |-> <<>>]
    /\ default_branch = [u \in Units |-> <<>>]
    /\ listed = [u \in Units |-> NotListed]
    /\ open_fix_prs = [u \in Units |-> <<>>]
    /\ crew_output = [u \in Units |-> NoReport]
    /\ file_changes = [u \in Units |-> <<>>]
    /\ nextChange = [u \in Units |-> 0]
    /\ committed = [u \in Units |-> <<>>]
    /\ pr = [u \in Units |-> 0]
    /\ calls = [u \in Units |-> <<>>]

\* a background task is run to its end: a unit that can take a step takes one
SpecSolo == SoloInit /\ [][Next]_vars /\ WF_vars(Next)

Ended(u) == pc[u] \in {"done", "raised"}

IsFileToken(t) == t.k = "file"

\* the number of file blocks of a report
NBlocks(report) == Len(SelectSeq(report.tokens, IsFileToken))

\* every external call of the unit was answered with success
AllCallsOk(u) == \A i \in 1..Len(calls[u]) : calls[u][i].res = "ok"

\* the lookups of the unit found no open fix PR: the guard's listing and the
\* lookup by head branch of create_pr
NoFixPrFound(u) ==
    /\ listed[u].code = 200 /\ ListedFixPrs(u) = <<>>
    /\ \A i \in 1..Len(calls[u]) : calls[u][i].op = "find_pr" => calls[u][i].arg = 0

IsStoreFix(c) == c.op = "store_fix"

IsCreatePull(c) == c.op = "create_pull"

\* the unit has ended after a failure outcome, without a fix PR in sight,
\* with every call answered with success and a report of file blocks
HappyPre(u) ==
    /\ Ended(u) /\ status[u] = "failure"
    /\ NoFixPrFound(u) /\ AllCallsOk(u)
    /\ NBlocks(crew_output[u]) >= 1

\* the n files are committed in order on the fix branch, one PR from it to the
\* default branch lists them, one record for that PR holds the n edits
HappyPost(u) ==
    LET n == NBlocks(crew_output[u])
        fc == file_changes[u]
        b == <<"f", "i", "x", "/", "c", "i", "-">> \o SubSeq(push[u].head_sha, 1, 7)
        mine == SelectSeq(files, LAMBDA f : f.unit = u)
        opened == SelectSeq(pulls, LAMBDA q : q.number = pr[u])
        recs == SelectSeq(store, LAMBDA d : d.pr_url = pr[u] /\ d.head_sha = push[u].head_sha)
    IN  /\ pc[u] = "done"
        /\ Len(fc) = n /\ Len(committed[u]) = n
        /\ mine = [k \in 1..n |-> [branch |-> b, path |-> fc[k].path, unit |-> u]]
        /\ b \in refs
        /\ Len(SelectSeq(calls[u], IsCreatePull)) = 1
        /\ pr[u] # 0 /\ Len(opened) = 1
        /\ opened[1].head = b /\ opened[1].base = HostDefaultBranch
        /\ opened[1].body = [k \in 1..n |-> fc[k].path]
        /\ Len(SelectSeq(calls[u], IsStoreFix)) = 1
        /\ Len(recs) = 1 /\ recs[1].file_changes = fc /\ Len(recs[1].file_changes) = n

\* C22: the unit comes to an end, and a unit whose CI outcome is failure,
\* whose lookups found no open fix PR, whose external calls all succeeded and
\* whose report holds n >= 1 file blocks has then committed the n files in
\* order to 'fix/ci-<first 7 characters of the head SHA>', opened one PR from
\* that branch to the default branch whose body lists the n paths, and stored
\* exactly one record, for that PR, whose file_changes has length n.
C22_HappyPath ==
    /\ \A u \in Units : <>Ended(u)
    /\ [](\A u \in Units : HappyPre(u) => HappyPost(u))

\* the unit ran the happy path to its end with a report of two blocks
C22_Witness ==
    \E u \in Units :
        /\ pc[u] = "done" /\ status[u] = "failure" /\ AllCallsOk(u) /\ NoFixPrFound(u)
        /\ NBlocks(crew_output[u]) = 2 /\ Len(committed[u]) = 2 /\ pr[u] # 0
        /\ Len(store) = 1 /\ Len(store[1].file_changes) = 2


\* the pull request with number n
PullNumbered(n) == CHOOSE q \in Range(pulls) : q.number = n

\* C23: a unit whose CI outcome is success, for a push to branch B, closes
\* only fix PRs that target B: a successful push to another branch than the
\* default branch closes no fix PR that targets the default branch.
C23_StaleScope ==
    \A u \in Units :
        status[u] = "success"
        => \A i \in 1..Len(calls[u]) :
              (calls[u][i].op = "close" /\ calls[u][i].res = "ok")
              => PullNumbered(calls[u][i].arg).base = push[u].branch


-----------------------------------------------------------------------------
(* Further properties of wait_for_ci *)

\* C24: a call that returns no_ci never saw a run: every poll of it observed
\* an empty run list; a call of which some poll observed runs ends in
\* success, failure or timeout.
C24_NoCiNeverSeen ==
    (wpc = "done" /\ ci_result.status = "no_ci") => seen = {"empty"}

\* C27: completion is checked before the deadline: a poll at or after the
\* deadline that observes a non-empty list of completed runs returns success
\* or failure, and timeout is returned only when the last poll observed a run
\* that is not completed.
C27_CompletionFirst ==
    wpc = "done"
    => /\ (lastPoll >= deadline /\ lastRuns # <<>>
               /\ \A i \in 1..Len(lastRuns) : lastRuns[i].status = "completed")
          => ci_result.status \in {"success", "failure"}
       /\ ci_result.status = "timeout"
          => \E i \in 1..Len(lastRuns) : lastRuns[i].status # "completed"

\* a poll made after the deadline, and after an earlier poll saw a pending
\* run, observed completed runs and the call returned failure
C27_Witness ==
    /\ wpc = "done"
    /\ lastPoll > deadline
    /\ "pending" \in seen
    /\ PollKind(lastRuns) = "complete"
    /\ ci_result.status = "failure"


-----------------------------------------------------------------------------
(* The order of the writes of one unit *)

\* the requests that change the host or the store
HostWrites == {"comment", "close", "create_branch", "commit_file", "create_pull"}
FixWrites == {"create_branch", "commit_file", "create_pull", "store_fix"}

\* the guard of unit u has passed before its call i: wait_for_ci returned
\* failure, and the guard's listing, sent before call i, left no open fix PR
GuardPassedBefore(u, i) ==
    /\ status[u] = "failure"
    /\ open_fix_prs[u] = <<>>
    /\ \E j \in 1..(i - 1) :
          /\ calls[u][j] = Call("wait_for_ci", 0, "ok")
          /\ \E k \in (j + 1)..(i - 1) : calls[u][k].op = "list_pulls"

\* create_pr returned a PR before call i: the lookup found one or the POST
\* was accepted
PrReturnedBefore(u, i) ==
    \E j \in 1..(i - 1) :
        \/ calls[u][j].op = "find_pr" /\ calls[u][j].arg # 0
        \/ calls[u][j] = Call("create_pull", 0, "ok")

\* the order of the writes of unit u, `ops` being the requests counted as
\* writes that wait for the guard
WritesInOrder(u, ops) ==
    LET cs == calls[u]
        At_(op) == {i \in 1..Len(cs) : cs[i].op = op}
    IN  /\ \A i \in 1..Len(cs) : cs[i].op \in ops => GuardPassedBefore(u, i)
        /\ \A i \in At_("commit_file") :
              \E j \in At_("create_branch") : j < i /\ cs[j].res # "raise"
        /\ \A i \in At_("commit_file") : \A j \in At_("create_pull") : i < j
        /\ Cardinality(At_("store_fix")) <= 1
        /\ \A i \in At_("store_fix") :
              /\ pr[u] # 0
              /\ PrReturnedBefore(u, i)
              /\ i = Len(cs)
              /\ pc[u] = "done"

\* a store_fix that fails leaves the host and the store as they were
FailedStoreKeeps ==
    \A u \in Units :
        (pc[u] = "store" /\ pc'[u] = "done" /\ calls'[u][Len(calls'[u])].res = "fail")
        => UNCHANGED <<hvars, committed, pr>>

\* C25 (as stated): no write to the host or the store is sent before
\* wait_for_ci returned failure and the guard passed; create-branch precedes
\* every commit-file, every commit-file precedes create-pull, store-fix is
\* called at most once and only after create_pr returned a PR, and a failing
\* store-fix neither undoes nor repeats an earlier step.
C25_Ordering ==
    \A u \in Units : WritesInOrder(u, HostWrites \cup FixWrites)

\* C25 (amended): the same for the writes of a fix attempt (create-branch,
\* commit-file, create-pull, store-fix); the comment and close requests are
\* sent without a failure or a passed guard.
C25_FixOrdering ==
    /\ [](\A u \in Units : WritesInOrder(u, FixWrites))
    /\ [][FailedStoreKeeps]_vars

\* a unit created a branch, committed, opened a PR, and its store_fix failed
C25_Witness ==
    \E u \in Units :
        /\ pc[u] = "done"
        /\ calls[u][Len(calls[u])] = Call("store_fix", 0, "fail")
        /\ \E i \in 1..Len(calls[u]) : calls[u][i] = Call("create_pull", 0, "ok")
        /\ \E i \in 1..Len(calls[u]) : calls[u][i].op = "commit_file" /\ calls[u][i].res = "raise"
        /\ store = <<>>


-----------------------------------------------------------------------------
(* create_pr *)

\* the open PRs of the host whose head is the fix branch of unit u
OpenOfHead(u) ==
    {i \in 1..Len(pulls) : pulls[i].state = "open"
                           /\ pulls[i].head = fix_branch(push[u].head_sha)}

\* unit u's create_pr sends its lookup in this step, and the lookup's answer
\* is one of `answers`
CreatePrCalled(u, answers) ==
    /\ pc[u] = "find_pr"
    /\ pc'[u] # "find_pr"
    /\ calls'[u][Len(calls'[u])].op = "find_pr"
    /\ calls'[u][Len(calls'[u])].res \in answers

\* create_pr returns an open PR of the head that existed at the call, and
\* goes on to no create-pull request
ExistingReturned(u) ==
    /\ pc'[u] = "store"
    /\ pr'[u] \in {pulls[i].number : i \in OpenOfHead(u)}
    /\ pulls' = pulls

\* the host never holds two open PRs of one head branch
OnePrPerHead ==
    \A i, j \in 1..Len(pulls) :
        (pulls[i].state = "open" /\ pulls[j].state = "open" /\ pulls[i].head = pulls[j].head)
        => i = j

\* C26 (as stated): when an open PR of the head branch exists at the call of
\* create_pr, that PR is returned and no create-pull request is sent, whatever
\* status the lookup is answered with; so no two open PRs share a head branch.
C26_Idempotent ==
    [][\A u \in Units :
          (CreatePrCalled(u, {"ok", "fail"}) /\ OpenOfHead(u) # {}) => ExistingReturned(u)]_vars

\* C26 (amended): when an open PR of the head branch exists at the call of
\* create_pr and the lookup is answered 200, that PR is returned and no
\* create-pull request is sent; a lookup answered otherwise is followed by the
\* create-pull request; in every case no two open PRs share a head branch.
C26_IdempotentWhenListed ==
    /\ [][\A u \in Units :
            /\ (CreatePrCalled(u, {"ok"}) /\ OpenOfHead(u) # {}) => ExistingReturned(u)
            /\ CreatePrCalled(u, {"fail"}) => pc'[u] = "post_pr" /\ pr'[u] = 0]_vars
    /\ []OnePrPerHead

\* both units called create_pr for the same fix branch and got the same PR
C26_Witness ==
    /\ pr[1] # 0
    /\ pr[1] = pr[2]
    /\ \E i \in 1..Len(calls[2]) : calls[2][i] = Call("find_pr", pr[1], "ok")
    /\ Cardinality(OpenOfHead(2)) = 1


-----------------------------------------------------------------------------
(* The guard when the listing fails *)

\* the open fix PRs the host holds for the base the guard of unit u asked for
HostOpenFixPrs(u) ==
    {i \in 1..Len(pulls) : pulls[i].state = "open" /\ pulls[i].base = default_branch[u]
                           /\ StartsWith(pulls[i].head, FixPrefix)}

\* the guard's listing of unit u was answered with a status other than 200
GuardListingRefused(u) ==
    status[u] = "failure" /\ listed[u].code \notin {0, 200}

\* the steps of a fix attempt, in order
AttemptSteps ==
    {"assemble", "crew", "extract", "fallback", "branch", "commit", "find_pr", "post_pr", "store"}

\* C28: the guard fails open: a listing answered non-200 gives the guard an
\* empty list, so the unit is not blocked: it sends no comment and goes on to
\* the fix attempt, even when the host holds an open fix PR.
C28_GuardFailsOpen ==
    /\ [](\A u \in Units :
             GuardListingRefused(u)
             => /\ open_fix_prs[u] = <<>>
                /\ pc[u] \in AttemptSteps \cup {"done", "raised"}
                /\ \A i \in 1..Len(calls[u]) : calls[u][i].op # "comment")
    /\ [][\A u \in Units :
             (pc[u] = "guard" /\ GuardListingRefused(u)')
             => pc'[u] = "assemble"]_vars

\* a unit whose guard listing was refused opened a new fix PR while the host
\* held another open fix PR to the same base
C28_Witness ==
    \E u \in Units :
        /\ GuardListingRefused(u)
        /\ pr[u] # 0
        /\ \E i \in 1..Len(calls[u]) : calls[u][i] = Call("create_pull", 0, "ok")
        /\ \E i \in HostOpenFixPrs(u) : pulls[i].number # pr[u]


-----------------------------------------------------------------------------
(* The edits a fix record holds *)

PathsOf(fc) == [i \in 1..Len(fc) |-> fc[i].path]

\* a is b with some elements left out
IsSubList(a, b) ==
    \E f \in [1..Len(a) -> 1..Len(b)] :
        /\ \A i, j \in 1..Len(a) : i < j => f[i] < f[j]
        /\ \A i \in 1..Len(a) : a[i] = b[f[i]]

\* the edit list of unit u: what the parser extracted, or the advisory
\* document when it extracted nothing
EditList(u) ==
    LET extracted == parse_file_changes(crew_output[u])
    IN  IF extracted = <<>>
        THEN advisory(failed_runs[u], push[u].head_sha, crew_output[u])
        ELSE extracted

\* unit u stores a record in this step
Stores(u) == pc[u] = "store" /\ pc'[u] = "done" /\ Len(store') = Len(store) + 1

-----------------------------------------------------------------------------
(* Fix records under concurrency *)

\* C30: for every interleaving of the units, a redelivered push included, the
\* store never holds two fix records with the same PR URL.
C30_OneRecordPerPr ==
    \A i, j \in 1..Len(store) : store[i].pr_url = store[j].pr_url => i = j


-----------------------------------------------------------------------------
(* The closure loop, PR by PR *)

\* the positions in the calls of unit u of the requests `op` for PR n
RequestsFor(u, op, n) ==
    {i \in 1..Len(calls[u]) : calls[u][i].op = op /\ calls[u][i].arg = n}

\* C31: in the closure of stale fix PRs each listed PR is handled on its own:
\* its comment request comes before its close request; a request that raises
\* skips what is left for that PR only (no close after a comment that raised),
\* the PRs listed after it are still sent their requests, and the closure
\* returns normally.
C31_PerPrIsolation ==
    \A u \in Units :
        status[u] = "success"
        => LET T == ListedFixPrs(u)
           IN  /\ \A k \in 1..Len(T) :
                    LET cm == RequestsFor(u, "comment", T[k].number)
                        cl == RequestsFor(u, "close", T[k].number)
                    IN  /\ Cardinality(cm) <= 1 /\ Cardinality(cl) <= 1
                        /\ \A j \in cl : \E i \in cm : i < j /\ calls[u][i].res # "raise"
                        /\ \A i \in cm : \A l \in k + 1..Len(T) :
                              \A j \in RequestsFor(u, "comment", T[l].number) : i < j
                        /\ pc[u] = "done"
                           => /\ cm # {}
                              /\ (\A i \in cm : calls[u][i].res # "raise") <=> cl # {}
               /\ (\E i \in 1..Len(calls[u]) : IsClosureCall(calls[u][i]))
                  => pc[u] \in {"stale_comment", "stale_close", "done"}

\* two fix PRs listed: the close request of the first raised, the second was
\* commented on and closed, and the unit returned
C31_Witness ==
    \E u \in Units :
        /\ status[u] = "success" /\ pc[u] = "done" /\ Len(ListedFixPrs(u)) = 2
        /\ LET W == ClosureCalls(u)
               T == ListedFixPrs(u)
           IN  /\ Len(W) = 4
               /\ W[1].arg = T[1].number /\ W[1].op = "comment" /\ W[1].res # "raise"
               /\ W[2] = Call("close", T[1].number, "raise")
               /\ W[3] = Call("comment", T[2].number, "ok")
               /\ W[4] = Call("close", T[2].number, "ok")

=============================================================================
